---- MODULE Spec2Model ----
(***************************************************************************)
(* Verification model of parts of the python-lab repository:               *)
(*   - the NCAA casablanca client decorators (caching, logging),           *)
(*   - the NCAA casablanca HTTP client,                                    *)
(*   - the refresh-token rotation of the project1_auth AuthService,        *)
(*   - the game filters and the FilterChain of the NCAA package,           *)
(*   - the gender resolver and the sports parser of the NCAA package,      *)
(*   - the BasketballService, the query builders and the observable client *)
(*     of the NCAA package, and the pydantic models the cache stores,      *)
(*   - the RateLimiter of the fastapi_oauth_example.                       *)
(* Strings that are concatenated by the code are modelled as sequences of  *)
(* tokens, so that "a" + "_" + "b" is <<"a", "_", "b">>.                    *)
(***************************************************************************)
EXTENDS Integers, Sequences, FiniteSets, TLC

VARIABLES
    cache,      \* CachedCasablancaClient._cache, one map per caching layer
    ttl,        \* CachedCasablancaClient._cache_duration, per caching layer
    now,        \* datetime.now().timestamp(), in ticks
    last,       \* the last operation on the decorator chain and its outcome
    today,      \* the calendar day datetime.now() falls on
    clientLast, \* the last operation on the bare CasablancaClient
    tokens,     \* rows of the refresh_tokens table, by token string
    userState,  \* the users table: "active", "inactive" or "missing", by user id
    rq,         \* the refresh_access_token calls in progress, one per request slot
    clock,      \* datetime.now(timezone.utc) of the auth service, in days
    families,   \* number of token families issued so far
    games,      \* the list of GameWrapper the filters are applied to
    filters,    \* FilterChain._filters
    fres,       \* the last filter call: the filter, its result, the calls made
    defaults,   \* DefaultGenderResolver._defaults, one table per resolver instance
    gres,       \* the last call on a gender resolver and what it returned
    touched,    \* the resolver instances register_default has been called on
    doc,        \* the HTML document given to parse_sports
    pres,       \* what the last parse_sports call returned or raised
    builder,    \* one query builder: its fields and its last method call
    rt,         \* a scoreboard response on its way through the cache and back
    limiter,    \* RateLimiter.requests, the calls admitted so far, the last call
    obs         \* ObservableCasablancaClient._observers and its last operation

authVars == <<tokens, userState, rq, clock, families>>
ncaaVars == <<cache, ttl, now, last, today, clientLast>>
filterVars == <<games, filters, fres>>
genderVars == <<defaults, gres, touched>>
parserVars == <<doc, pres>>
extVars == <<builder, rt, limiter, obs>>
libVars == <<filterVars, genderVars, parserVars, extVars>>
vars == <<cache, ttl, now, last, today, clientLast, tokens, userState, rq, clock, families,
          games, filters, fres, defaults, gres, touched, doc, pres,
          builder, rt, limiter, obs>>

----------------------------------------------------------------------------
(* Bounds *)
MaxTime == 2
MaxTTL == 2
MaxDays == 3
MaxDay == 1

----------------------------------------------------------------------------
(* The decorator chain, outermost first; the CasablancaClient is below it. *)
Chain == <<"logging", "cached">>
Base == Len(Chain) + 1
Layers == 1..Base
CacheLayers == {i \in 1..Len(Chain) : Chain[i] = "cached"}

(* Argument values.  Some contain the "_" character. *)
(* <<sport, division>> of the schedule requests and <<gender, division>> of *)
(* the scoreboard requests.                                                 *)
ScheduleArgs == {<<<<"beach">>, <<"d1">>>>,
                 <<<<"beach">>, <<"volleyball", "_", "d1">>>>,
                 <<<<"beach", "_", "volleyball">>, <<"d1">>>>}
ScoreboardArgs == {<<<<"men">>, <<"d1">>>>}
ArgsOf(kind) == IF kind = "scoreboard" THEN ScoreboardArgs ELSE ScheduleArgs
(* Arguments tried where the cache key plays no part, and wrapped-client   *)
(* behaviours tried on the methods the decorators only hand through.        *)
PassArgsOf(kind) ==
    IF kind = "scoreboard" THEN ScoreboardArgs ELSE {<<<<"beach">>, <<"d1">>>>}
PassOutcomes == {"ok", "network_error"}
(* Ticks the clock may advance while the wrapped client is being called.    *)
Latencies == {0, 1}
DateStr == <<"2024/03/15", "2024/03/16", "2024/03/17", "2024/03/18", "2024/03/19",
             "2024/03/20", "2024/03/21">>
Dates == {<<DateStr[1]>>}
Kinds == {"scoreboard", "schedule"}
Requests == {[kind |-> k, a1 |-> p[1], a2 |-> p[2], date |-> d] :
                 k \in Kinds, p \in ScheduleArgs \cup ScoreboardArgs, d \in Dates}

NoCalls == [j \in Layers |-> 0]

----------------------------------------------------------------------------
(* CasablancaClient (casablanca_client.py) and its URL builders (config.py) *)

CASABLANCA_SCOREBOARD_BASE_URL == "https://data.ncaa.com/casablanca/scoreboard"
CASABLANCA_SCHEDULE_BASE_URL == "https://data.ncaa.com/casablanca/schedule"

(* What one requests.get can do: answer 2xx with a body that validates,    *)
(* answer 2xx with a JSON body the pydantic model rejects, fail in the      *)
(* transport (timeout, connection), or answer with a non-2xx status.        *)
HttpOutcomes == {"ok", "invalid_body", "network_error", "http_status"}
TransportFailures == {"network_error", "http_status"}

NoValue == [kind |-> "none", body |-> <<>>]
NoError == [kind |-> "none", url |-> <<>>, cause |-> "none"]
Ok(v) == [ok |-> TRUE, value |-> v, error |-> NoError]
Raise(e) == [ok |-> FALSE, value |-> NoValue, error |-> e]

build_scoreboard_url(base_url, gender, division, date) ==
    <<base_url, "/basketball-">> \o gender \o <<"/">> \o division \o <<"/">>
        \o date \o <<"/scoreboard.json">>

build_schedule_url(base_url, sport, division, date) ==
    <<base_url, "/">> \o sport \o <<"/">> \o division \o <<"/">>
        \o date \o <<"/schedule.json">>

(* strftime(NCAA_DATE_FORMAT) of day number d *)
FormatDate(d) == <<DateStr[d + 1]>>
get_today_date_string(day) == FormatDate(day)
format_date_offset(day, days) == FormatDate(day + days)

\* Variant: a failed GET is tried a second time before the error is raised.
_fetch_json_retry(url, http) ==
    IF http \in TransportFailures
    THEN [ok |-> FALSE, data |-> [url |-> url, valid |-> FALSE],
          error |-> [kind |-> "CasablancaClientError", url |-> url, cause |-> http],
          attempts |-> <<[url |-> url, outcome |-> http], [url |-> url, outcome |-> http]>>]
    ELSE [ok |-> TRUE, data |-> [url |-> url, valid |-> (http = "ok")],
          error |-> NoError, attempts |-> <<[url |-> url, outcome |-> http]>>]

(* One GET, no retry: a RequestException becomes a CasablancaClientError   *)
(* that carries the URL and the cause; a 2xx body is returned as parsed.    *)
(* attempts lists the GETs made, each with what it did.                     *)
_fetch_json(url, http) ==
    IF http \in TransportFailures
    THEN [ok |-> FALSE, data |-> [url |-> url, valid |-> FALSE],
          error |-> [kind |-> "CasablancaClientError", url |-> url, cause |-> http],
          attempts |-> <<[url |-> url, outcome |-> http]>>]
    ELSE [ok |-> TRUE, data |-> [url |-> url, valid |-> (http = "ok")],
          error |-> NoError, attempts |-> <<[url |-> url, outcome |-> http]>>]

\* The pydantic constructors ScoreboardResponse / ScheduleResponse applied to a body.
ParseBody(kind, data) ==
    IF data.valid
    THEN Ok([kind |-> kind, body |-> data.url])
    ELSE Raise([kind |-> "ValidationError", url |-> <<>>, cause |-> "invalid_body"])

Client_get(kind, a1, a2, date, http) ==
    LET url == IF kind = "scoreboard"
               THEN build_scoreboard_url(CASABLANCA_SCOREBOARD_BASE_URL, a1, a2, date)
               ELSE build_schedule_url(CASABLANCA_SCHEDULE_BASE_URL, a1, a2, date)
        f == _fetch_json(url, http)
    IN  [result |-> IF f.ok THEN ParseBody(kind, f.data) ELSE Raise(f.error),
         http |-> f.attempts]

Client_get_todays(kind, a1, a2, day, http) ==
    Client_get(kind, a1, a2, get_today_date_string(day), http)

\* Variant: the first day that fails ends the loop (break for continue).
RECURSIVE UpcomingLoop_break(_, _, _, _, _, _, _, _)
UpcomingLoop_break(i, days, sport, division, dayAt, outs, schedules, urls) ==
    IF i >= days
    THEN [ok |-> TRUE, schedules |-> schedules, error |-> NoError, http |-> urls]
    ELSE LET date == format_date_offset(dayAt[i + 1], i)
             r == Client_get("schedule", sport, division, date, outs[i + 1])
         IN  IF r.result.ok
             THEN UpcomingLoop_break(i + 1, days, sport, division, dayAt, outs,
                                     Append(schedules, r.result.value), urls \o r.http)
             ELSE IF r.result.error.kind = "CasablancaClientError"
             THEN [ok |-> TRUE, schedules |-> schedules, error |-> NoError,
                   http |-> urls \o r.http]
             ELSE [ok |-> FALSE, schedules |-> <<>>, error |-> r.result.error,
                   http |-> urls \o r.http]

(* The day loop of get_upcoming_schedules from iteration i on.  dayAt[i+1] *)
(* is the calendar day datetime.now() falls on when iteration i runs and    *)
(* outs[i+1] what its GET does.  Only CasablancaClientError is caught.      *)
RECURSIVE UpcomingLoop(_, _, _, _, _, _, _, _)
UpcomingLoop(i, days, sport, division, dayAt, outs, schedules, urls) ==
    IF i >= days
    THEN [ok |-> TRUE, schedules |-> schedules, error |-> NoError, http |-> urls]
    ELSE LET date == format_date_offset(dayAt[i + 1], i)
             r == Client_get("schedule", sport, division, date, outs[i + 1])
         IN  IF r.result.ok
             THEN UpcomingLoop(i + 1, days, sport, division, dayAt, outs,
                               Append(schedules, r.result.value), urls \o r.http)
             ELSE IF r.result.error.kind = "CasablancaClientError"
             THEN UpcomingLoop(i + 1, days, sport, division, dayAt, outs,
                               schedules, urls \o r.http)
             ELSE [ok |-> FALSE, schedules |-> <<>>, error |-> r.result.error,
                   http |-> urls \o r.http]

Client_get_upcoming_schedules(sport, division, days, dayAt, outs) ==
    UpcomingLoop(0, days, sport, division, dayAt, outs, <<>>, <<>>)

----------------------------------------------------------------------------
(* CachedCasablancaClient and LoggingCasablancaClient (decorators.py)      *)

RECURSIVE JoinArgs(_)
JoinArgs(args) ==
    IF Len(args) = 0 THEN <<>>
    ELSE IF Len(args) = 1 THEN Head(args)
    ELSE Head(args) \o <<"_">> \o JoinArgs(Tail(args))

\* f"{endpoint_type}_{'_'.join(str(arg) for arg in args)}"
_get_cache_key(endpoint_type, args) == <<endpoint_type, "_">> \o JoinArgs(args)

KeyOf(req) == _get_cache_key(req.kind, <<req.a1, req.a2, req.date>>)

EmptyCache == <<>>

\* result.model_dump(): the plain dict of the response
model_dump(v) == [games |-> v.body]
\* ScoreboardResponse / ScheduleResponse built from a cached dict
FromCached(kind, data) == [kind |-> kind, body |-> data.games]
\* truth value of a dict: it has at least one key
Truthy(data) == DOMAIN data # {}

\* Variant: an entry exactly as old as the TTL still counts as fresh.
Fresh_inclusive(entry, duration, t) == t - entry.timestamp <= duration

Fresh(entry, duration, t) == t - entry.timestamp < duration

\* Variant: an expired entry is reported as absent and left in the map.
_get_cached_keep(c, cache_key, duration, t) ==
    IF cache_key \in DOMAIN c /\ Fresh(c[cache_key], duration, t)
    THEN [found |-> TRUE, data |-> c[cache_key].data, cache |-> c]
    ELSE [found |-> FALSE, data |-> [games |-> <<>>], cache |-> c]

\* Variant: a lookup drops every expired entry of the map.
_get_cached_purge(c, cache_key, duration, t) ==
    LET kept == [k \in {j \in DOMAIN c : Fresh(c[j], duration, t)} |-> c[k]]
    IN  IF cache_key \in DOMAIN kept
        THEN [found |-> TRUE, data |-> c[cache_key].data, cache |-> kept]
        ELSE [found |-> FALSE, data |-> [games |-> <<>>], cache |-> kept]

_get_cached(c, cache_key, duration, t) ==
    IF cache_key \in DOMAIN c
    THEN IF Fresh(c[cache_key], duration, t)
         THEN [found |-> TRUE, data |-> c[cache_key].data, cache |-> c]
         ELSE [found |-> FALSE, data |-> [games |-> <<>>],
               cache |-> [k \in DOMAIN c \ {cache_key} |-> c[k]]]
    ELSE [found |-> FALSE, data |-> [games |-> <<>>], cache |-> c]

_set_cache(c, cache_key, data, t) ==
    [k \in DOMAIN c \cup {cache_key} |->
        IF k = cache_key THEN [data |-> data, timestamp |-> t] ELSE c[k]]

(* get_scoreboard / get_schedule entering layer i of the chain.  t0 is the *)
(* clock when the lookups run, t1 the clock when the results are stored.    *)
RECURSIVE Chain_get(_, _, _, _, _, _, _)
Chain_get(i, req, c, durations, t0, t1, http) ==
    IF i = Base
    THEN LET r == Client_get(req.kind, req.a1, req.a2, req.date, http)
         IN  [cache |-> c, result |-> r.result,
              calls |-> [NoCalls EXCEPT ![Base] = 1], http |-> r.http]
    ELSE IF Chain[i] = "logging"
    THEN LET r == Chain_get(i + 1, req, c, durations, t0, t1, http)
         IN  [r EXCEPT !.calls[i] = 1]
    ELSE LET cache_key == KeyOf(req)
             cached == _get_cached(c[i], cache_key, durations[i], t0)
         IN  IF cached.found /\ Truthy(cached.data)
             THEN [cache |-> c, result |-> Ok(FromCached(req.kind, cached.data)),
                   calls |-> [NoCalls EXCEPT ![i] = 1], http |-> <<>>]
             ELSE LET r == Chain_get(i + 1, req, [c EXCEPT ![i] = cached.cache],
                                     durations, t0, t1, http)
                  IN  IF r.result.ok
                      THEN [r EXCEPT !.calls[i] = 1,
                                     !.cache[i] = _set_cache(r.cache[i], cache_key,
                                                     model_dump(r.result.value), t1)]
                      ELSE [r EXCEPT !.calls[i] = 1]

(* get_todays_scoreboard / get_todays_schedule / get_upcoming_schedules:   *)
(* every decorator hands the call to the same method of its wrapped client. *)
\* Variant: the caching layer answers by itself and drops its entries.
RECURSIVE Chain_delegate_stops(_, _)
Chain_delegate_stops(i, c) ==
    IF i = Base THEN [cache |-> c, calls |-> [NoCalls EXCEPT ![Base] = 1]]
    ELSE IF Chain[i] = "cached"
    THEN [cache |-> [c EXCEPT ![i] = EmptyCache], calls |-> [NoCalls EXCEPT ![i] = 1]]
    ELSE LET r == Chain_delegate_stops(i + 1, c) IN [r EXCEPT !.calls[i] = 1]

RECURSIVE Chain_delegate(_, _)
Chain_delegate(i, c) ==
    IF i = Base THEN [cache |-> c, calls |-> [NoCalls EXCEPT ![Base] = 1]]
    ELSE LET r == Chain_delegate(i + 1, c) IN [r EXCEPT !.calls[i] = 1]

\* Variant: the caching layer clears its own map and does not forward.
RECURSIVE Chain_clear_cache_local(_, _)
Chain_clear_cache_local(i, c) ==
    IF i = Base THEN [cache |-> c, calls |-> [NoCalls EXCEPT ![Base] = 1]]
    ELSE IF Chain[i] = "logging"
    THEN LET r == Chain_clear_cache_local(i + 1, c) IN [r EXCEPT !.calls[i] = 1]
    ELSE [cache |-> [c EXCEPT ![i] = EmptyCache], calls |-> [NoCalls EXCEPT ![i] = 1]]

RECURSIVE Chain_clear_cache(_, _)
Chain_clear_cache(i, c) ==
    IF i = Base THEN [cache |-> c, calls |-> [NoCalls EXCEPT ![Base] = 1]]
    ELSE IF Chain[i] = "logging"
    THEN LET r == Chain_clear_cache(i + 1, c) IN [r EXCEPT !.calls[i] = 1]
    ELSE LET r == Chain_clear_cache(i + 1, [c EXCEPT ![i] = EmptyCache])
         IN  [r EXCEPT !.calls[i] = 1]

\* Variant: the caching layer forwards the call instead of keeping the TTL.
RECURSIVE Chain_set_cache_duration_forwarded(_, _, _)
Chain_set_cache_duration_forwarded(i, durations, seconds) ==
    IF i = Base THEN [ttl |-> durations, calls |-> [NoCalls EXCEPT ![Base] = 1]]
    ELSE LET r == Chain_set_cache_duration_forwarded(i + 1, durations, seconds)
         IN  [r EXCEPT !.calls[i] = 1]

RECURSIVE Chain_set_cache_duration(_, _, _)
Chain_set_cache_duration(i, durations, seconds) ==
    IF i = Base THEN [ttl |-> durations, calls |-> [NoCalls EXCEPT ![Base] = 1]]
    ELSE IF Chain[i] = "logging"
    THEN LET r == Chain_set_cache_duration(i + 1, durations, seconds)
         IN  [r EXCEPT !.calls[i] = 1]
    ELSE [ttl |-> [durations EXCEPT ![i] = seconds],
          calls |-> [NoCalls EXCEPT ![i] = 1]]

----------------------------------------------------------------------------
(* AuthService and the refresh-token repository (project1_auth)            *)

MaxTokens == 3
\* refresh_token_expire_days
ExpireDays == 7

Users == {1}
TokenIds == 1..MaxTokens
\* two requests may be in progress at the same time
Slots == {1, 2}

NoRow == [user_id |-> 0, token_family |-> 0, expires_at |-> 0, revoked |-> FALSE]
NoAccess == [sub |-> 0]
IdleRequest == [pc |-> "idle", token |-> 0, stored |-> NoRow,
                outcome |-> "none", access |-> NoAccess, refresh |-> 0]

\* some call has ended with the reuse error after revoke_family(token_family)
FamilyRevokedBy(q, rows, token_family) ==
    \E p \in DOMAIN q :
        /\ q[p].pc = "done"
        /\ q[p].outcome = "revoked"
        /\ q[p].token \in DOMAIN rows
        /\ rows[q[p].token].token_family = token_family

AuthIdle ==
    /\ tokens = <<>>
    /\ userState = [u \in Users |-> "active"]
    /\ rq = [r \in Slots |-> IdleRequest]
    /\ clock = 0
    /\ families = 0

\* INSERT INTO refresh_tokens ... ; revoked defaults to FALSE
Repo_create(rows, user_id, token, token_family, expires_at) ==
    [k \in DOMAIN rows \cup {token} |->
        IF k = token
        THEN [user_id |-> user_id, token_family |-> token_family,
              expires_at |-> expires_at, revoked |-> FALSE]
        ELSE rows[k]]

\* Variant: revoke_by_token updates no row.
Repo_revoke_by_token_noop(rows, token) == rows

\* UPDATE refresh_tokens SET revoked = TRUE WHERE token = %s
Repo_revoke_by_token(rows, token) ==
    [k \in DOMAIN rows |-> IF k = token THEN [rows[k] EXCEPT !.revoked = TRUE] ELSE rows[k]]

\* UPDATE ... SET revoked = TRUE WHERE user_id = %s AND revoked = FALSE
Repo_revoke_all_for_user(rows, user_id) ==
    [k \in DOMAIN rows |->
        IF rows[k].user_id = user_id /\ ~rows[k].revoked
        THEN [rows[k] EXCEPT !.revoked = TRUE] ELSE rows[k]]

\* Variant: revoke_family revokes only the first live row of the family.
Repo_revoke_family_first(rows, token_family) ==
    [k \in DOMAIN rows |->
        IF rows[k].token_family = token_family /\ ~rows[k].revoked
              /\ \A j \in DOMAIN rows : rows[j].token_family = token_family => k <= j
        THEN [rows[k] EXCEPT !.revoked = TRUE] ELSE rows[k]]

\* UPDATE ... SET revoked = TRUE WHERE token_family = %s AND revoked = FALSE
Repo_revoke_family(rows, token_family) ==
    [k \in DOMAIN rows |->
        IF rows[k].token_family = token_family /\ ~rows[k].revoked
        THEN [rows[k] EXCEPT !.revoked = TRUE] ELSE rows[k]]

\* Variant: the expiry of the row read is not checked.
Expired_unchecked(row, t) == FALSE

\* stored_token.expires_at < datetime.now(timezone.utc)
Expired(row, t) == row.expires_at < t

\* secrets.token_urlsafe(64): a string no stored token has
FreshToken(rows) == CHOOSE k \in TokenIds : k \notin DOMAIN rows /\ \A j \in TokenIds \ DOMAIN rows : k <= j

\* create_access_token(data={"sub": user.username})
create_access_token(user_id) == [sub |-> user_id]

----------------------------------------------------------------------------
(* The game filters of ncaa/game_filters.py.  A name is the sequence of its *)
(* characters.                                                               *)

MaxGames == 2
MaxFilters == 2

\* GameState
GameStates == {"pre", "in", "post", "scheduled", "inprogress", "final", "postponed",
               "cancelled"}

Duke == [full |-> <<"D", "u", "k", "e">>, conferences |-> <<"ACC">>]
UNC == [full |-> <<"U", "N", "C">>, conferences |-> <<"ACC">>]
Yale == [full |-> <<"Y", "a", "l", "e">>, conferences |-> <<"Ivy", "ECAC">>]
Penn == [full |-> <<"P", "e", "n", "n">>, conferences |-> <<>>]

\* The GameWrapper values the lists are made of.
GameUniverse ==
    {[gameState |-> st, home |-> Duke, away |-> UNC] : st \in GameStates}
        \cup {[gameState |-> "in", home |-> Penn, away |-> Yale]}

GameLists == UNION {[1..n -> GameUniverse] : n \in 0..MaxGames}

\* The lists given to the FilterChain: games that the filter objects used
\* tell apart.
ChainGameLists ==
    UNION {[1..n -> {g \in GameUniverse : g.gameState \in {"pre", "in", "final", "postponed"}}]
               : n \in 0..MaxGames}

UpperChars == <<"A", "B", "C", "D", "E", "F", "G", "H", "I", "J", "K", "L", "M">> \o
              <<"N", "O", "P", "Q", "R", "S", "T", "U", "V", "W", "X", "Y", "Z">>
LowerChars == <<"a", "b", "c", "d", "e", "f", "g", "h", "i", "j", "k", "l", "m">> \o
              <<"n", "o", "p", "q", "r", "s", "t", "u", "v", "w", "x", "y", "z">>

\* str.lower() on one character
LowerChar(ch) ==
    IF \E k \in 1..Len(UpperChars) : UpperChars[k] = ch
    THEN LowerChars[CHOOSE k \in 1..Len(UpperChars) : UpperChars[k] = ch]
    ELSE ch

\* str.lower()
Lower(str) == [k \in 1..Len(str) |-> LowerChar(str[k])]

\* sub in str
Contains(sub, str) ==
    \E k \in 0..(Len(str) - Len(sub)) : SubSeq(str, k + 1, k + Len(sub)) = sub

\* x in [a, b]
InList(x, list) == \E k \in 1..Len(list) : list[k] = x

\* the lists of GameState the three state filters test membership in
LiveStates == <<"in", "inprogress">>
CompletedStates == <<"post", "final">>

\* Variant: the scheduled states also hold POSTPONED.
ScheduledStates_postponed == <<"pre", "scheduled", "postponed">>

ScheduledStates == <<"pre", "scheduled">>

\* TeamFilter.__init__ and ConferenceFilter.__init__
TeamFilter(team_name) == [kind |-> "team", arg |-> Lower(team_name)]
ConferenceFilter(conference) == [kind |-> "conference", arg |-> <<conference>>]
LiveGameFilter == [kind |-> "live", arg |-> <<>>]
CompletedGameFilter == [kind |-> "completed", arg |-> <<>>]
ScheduledGameFilter == [kind |-> "scheduled", arg |-> <<>>]

\* The filter objects used.
FilterObjects ==
    {LiveGameFilter, CompletedGameFilter, ScheduledGameFilter,
     TeamFilter(<<"D", "U", "K", "E">>), ConferenceFilter("ACC")}

\* the condition of each filter's list comprehension
Keeps(f, game) ==
    CASE f.kind = "live" -> InList(game.gameState, LiveStates)
      [] f.kind = "completed" -> InList(game.gameState, CompletedStates)
      [] f.kind = "scheduled" -> InList(game.gameState, ScheduledStates)
      [] f.kind = "team" -> \/ Contains(f.arg, Lower(game.home.full))
                            \/ Contains(f.arg, Lower(game.away.full))
      [] f.kind = "conference" ->
             \/ \E k \in 1..Len(game.home.conferences) : game.home.conferences[k] = f.arg[1]
             \/ \E k \in 1..Len(game.away.conferences) : game.away.conferences[k] = f.arg[1]

\* Variant: the filter removes the rejected games from the list it iterates
\* over, so the game after a removed one is not looked at.
RECURSIVE Filter_filter_remove(_, _)
Filter_filter_remove(f, list) ==
    IF list = <<>> THEN <<>>
    ELSE IF Keeps(f, Head(list))
         THEN <<Head(list)>> \o Filter_filter_remove(f, Tail(list))
         ELSE IF Len(list) = 1 THEN <<>>
              ELSE <<list[2]>> \o Filter_filter_remove(f, Tail(Tail(list)))

\* Variant: the filter returns as soon as it has found one game to keep.
RECURSIVE Filter_filter_first(_, _)
Filter_filter_first(f, list) ==
    IF list = <<>> THEN <<>>
    ELSE IF Keeps(f, Head(list))
         THEN <<Head(list)>>
         ELSE Filter_filter_first(f, Tail(list))

\* [game for game in games if <condition>]: a new list, games is not changed
RECURSIVE Filter_filter(_, _)
Filter_filter(f, list) ==
    IF list = <<>> THEN <<>>
    ELSE IF Keeps(f, Head(list))
         THEN <<Head(list)>> \o Filter_filter(f, Tail(list))
         ELSE Filter_filter(f, Tail(list))

\* Variant: every filter of the chain is given the chain's input.
RECURSIVE FilterChain_filter_input(_, _, _, _)
FilterChain_filter_input(fs, list, result, calls) ==
    IF fs = <<>> THEN [out |-> result, calls |-> calls]
    ELSE FilterChain_filter_input(Tail(fs), list, Filter_filter(Head(fs), list),
                                  Append(calls, [filter |-> Head(fs), input |-> list]))

\* FilterChain.filter: result = games; for f in self._filters: result = f.filter(result)
RECURSIVE FilterChain_filter(_, _, _, _)
FilterChain_filter(fs, list, result, calls) ==
    IF fs = <<>> THEN [out |-> result, calls |-> calls]
    ELSE FilterChain_filter(Tail(fs), list, Filter_filter(Head(fs), result),
                            Append(calls, [filter |-> Head(fs), input |-> result]))

\* chain: the filters the FilterChain held when it was called
NoFilterCall == [op |-> "none", filter |-> LiveGameFilter, chain |-> <<>>, out |-> <<>>,
                 calls |-> <<>>]

FilterIdle ==
    /\ games = <<>>
    /\ filters = <<>>
    /\ fres = NoFilterCall

----------------------------------------------------------------------------
(* BasketballService (basketball_service.py) and ScheduleHelper.  The       *)
(* service's client is the decorator chain.                                  *)

\* f"{base_sport}-{gender}"
build_sport_name(base_sport, gender) == <<base_sport, "-">> \o gender

\* The games of the document the server holds under a URL, by the date in
\* the URL.  A game may be on two days' documents; no list is sorted.
ServerGames(url) ==
    CASE InList(DateStr[1], url) ->
             <<[gameState |-> "in", home |-> Duke, away |-> UNC],
               [gameState |-> "final", home |-> Duke, away |-> UNC]>>
      [] InList(DateStr[2], url) ->
             <<[gameState |-> "final", home |-> Duke, away |-> UNC],
               [gameState |-> "pre", home |-> Duke, away |-> UNC],
               [gameState |-> "final", home |-> Duke, away |-> UNC]>>
      [] InList(DateStr[3], url) -> <<>>
      [] OTHER -> <<[gameState |-> "in", home |-> Penn, away |-> Yale]>>

\* response.games
GamesOf(response) == ServerGames(response.body)

\* Variant: a game already collected is not collected again.
RECURSIVE collect_games_from_schedules_dedup(_, _)
collect_games_from_schedules_dedup(schedules, all_games) ==
    IF schedules = <<>> THEN all_games
    ELSE collect_games_from_schedules_dedup(Tail(schedules),
             all_games \o SelectSeq(GamesOf(Head(schedules)),
                                    LAMBDA g : ~InList(g, all_games)))

\* for schedule in schedules: all_games.extend(schedule.games)
RECURSIVE collect_games_from_schedules(_, _)
collect_games_from_schedules(schedules, all_games) ==
    IF schedules = <<>> THEN all_games
    ELSE collect_games_from_schedules(Tail(schedules),
                                      all_games \o GamesOf(Head(schedules)))

\* Variant: today's scoreboard is fetched with get_todays_scoreboard.
Service_get_games_by_filter_todays(gender, division, game_filter, c, durations, day, t0, t1, http) ==
    LET r == Client_get_todays("scoreboard", gender, division, day, http)
        ch == Chain_delegate(1, c)
    IN  [req |-> [kind |-> "scoreboard", a1 |-> gender, a2 |-> division,
                  date |-> get_today_date_string(day)],
         cache |-> ch.cache, calls |-> ch.calls, http |-> r.http,
         result |-> IF r.result.ok
                    THEN Ok([kind |-> "games",
                             body |-> Filter_filter(game_filter, GamesOf(r.result.value))])
                    ELSE r.result]

\* get_games_by_filter: client.get_scoreboard(gender, division, today), then
\* game_filter.filter(scoreboard.games)
Service_get_games_by_filter(gender, division, game_filter, c, durations, day, t0, t1, http) ==
    LET req == [kind |-> "scoreboard", a1 |-> gender, a2 |-> division,
                date |-> get_today_date_string(day)]
        r == Chain_get(1, req, c, durations, t0, t1, http)
    IN  [req |-> req, cache |-> r.cache, calls |-> r.calls, http |-> r.http,
         result |-> IF r.result.ok
                    THEN Ok([kind |-> "games",
                             body |-> Filter_filter(game_filter, GamesOf(r.result.value))])
                    ELSE r.result]

\* get_upcoming_games: get_upcoming_schedules of "basketball-{gender}", then
\* schedule_helper.collect_games_from_schedules(schedules)
Service_get_upcoming_games(gender, division, days, c, dayAt, outs) ==
    LET sport == build_sport_name("basketball", gender)
        r == Client_get_upcoming_schedules(sport, division, days, dayAt, outs)
        ch == Chain_delegate(1, c)
    IN  [req |-> [kind |-> "schedule", a1 |-> sport, a2 |-> division,
                  date |-> get_today_date_string(dayAt[1])],
         cache |-> ch.cache, calls |-> ch.calls, http |-> r.http,
         result |-> IF r.ok
                    THEN Ok([kind |-> "games",
                             body |-> collect_games_from_schedules(r.schedules, <<>>)])
                    ELSE Raise(r.error)]

----------------------------------------------------------------------------
(* The DefaultGenderResolver of ncaa/gender_resolver.py *)

\* Gender
Genders == {"Men", "Women", "Coed", "Unspecified"}

\* the dict literal of DefaultGenderResolver.__init__, as <<key, value>> pairs
BuiltinPairs ==
    {<<<<"s", "o", "f", "t", "b", "a", "l", "l">>, "Women">>,
     <<<<"b", "a", "s", "e", "b", "a", "l", "l">>, "Men">>,
     <<<<"f", "i", "e", "l", "d", " ", "h", "o", "c", "k", "e", "y">>, "Women">>,
     <<<<"r", "o", "w", "i", "n", "g">>, "Women">>,
     <<<<"b", "o", "w", "l", "i", "n", "g">>, "Women">>,
     <<<<"b", "e", "a", "c", "h", " ", "v", "o", "l", "l", "e", "y", "b", "a", "l", "l">>, "Women">>,
     <<<<"r", "i", "f", "l", "e">>, "Coed">>,
     <<<<"s", "k", "i", "i", "n", "g">>, "Coed">>,
     <<<<"f", "o", "o", "t", "b", "a", "l", "l">>, "Men">>,
     <<<<"f", "e", "n", "c", "i", "n", "g">>, "Coed">>}

BuiltinDefaults ==
    [k \in {p[1] : p \in BuiltinPairs} |-> (CHOOSE p \in BuiltinPairs : p[1] = k)[2]]

\* str.lstrip() and str.rstrip(): whitespace at the ends removed
RECURSIVE LStrip(_)
LStrip(str) == IF str # <<>> /\ Head(str) = " " THEN LStrip(Tail(str)) ELSE str

RECURSIVE RStrip(_)
RStrip(str) ==
    IF str # <<>> /\ str[Len(str)] = " " THEN RStrip(SubSeq(str, 1, Len(str) - 1)) ELSE str

\* str.strip()
Strip(str) == RStrip(LStrip(str))

\* Variant: the table is looked up whatever the text gender is.
resolve_table_first(table, sport_name, text_gender) ==
    LET key == Lower(Strip(sport_name))
    IN  IF key \in DOMAIN table THEN table[key] ELSE text_gender

\* DefaultGenderResolver.resolve on an instance whose _defaults is table
resolve(table, sport_name, text_gender) ==
    IF text_gender # "Unspecified"
    THEN text_gender
    ELSE LET key == Lower(Strip(sport_name))
         IN  IF key \in DOMAIN table THEN table[key] ELSE text_gender

Resolvers == {1, 2}

\* Variant: _defaults is one dict shared by all instances.
register_default_shared(tables, i, sport_name, gender) ==
    LET key == Lower(Strip(sport_name))
    IN  [j \in DOMAIN tables |->
            [k \in DOMAIN tables[j] \cup {key} |-> IF k = key THEN gender ELSE tables[j][k]]]

\* DefaultGenderResolver.register_default on instance i
register_default(tables, i, sport_name, gender) ==
    LET key == Lower(Strip(sport_name))
    IN  [tables EXCEPT ![i] =
            [k \in DOMAIN tables[i] \cup {key} |-> IF k = key THEN gender ELSE tables[i][k]]]

\* The sport names the resolvers are called with.
SportNames ==
    {<<"S", "o", "f", "t", "b", "a", "l", "l">>,
     <<" ", "S", "O", "F", "T", "B", "A", "L", "L", " ">>,
     <<"B", "a", "s", "k", "e", "t", "b", "a", "l", "l">>,
     <<"C", "r", "i", "c", "k", "e", "t">>,
     <<"c", "r", "i", "c", "k", "e", "t", " ">>,
     <<"F", "o", "o", "t", "b", "a", "l", "l">>}

RegisterNames == {<<"C", "r", "i", "c", "k", "e", "t">>, <<" ", "S", "O", "F", "T", "B", "A", "L", "L", " ">>}

\* The genders registered: one that differs from every built-in entry used,
\* and Unspecified itself.
RegisterGenders == {"Men", "Unspecified"}

NoGenderCall == [op |-> "none", inst |-> 0, name |-> <<>>, gender |-> "Unspecified",
                 out |-> "Unspecified"]

GenderIdle ==
    /\ defaults = [i \in Resolvers |-> BuiltinDefaults]
    /\ gres = NoGenderCall
    /\ touched = {}

----------------------------------------------------------------------------
(* The sports parser of ncaa/scraper/parser.py and parser_helpers.py.  A    *)
(* document is what the selectors find in it: whether the .sports-nav       *)
(* container is there and, for each .season block in it, its .season-header *)
(* (there or not, and its text) and its sport tags (text and href).         *)

MaxBlocks == 2
MaxEntries == 3

\* str.endswith
EndsWith(str, suffix) ==
    /\ Len(suffix) <= Len(str)
    /\ SubSeq(str, Len(str) - Len(suffix) + 1, Len(str)) = suffix

\* Variant: "men" is looked for before "women".
extract_gender_men_first(raw_name) ==
    LET lower == Lower(raw_name)
    IN  IF Contains(<<"m", "e", "n">>, lower) THEN "Men"
        ELSE IF Contains(<<"w", "o", "m", "e", "n">>, lower) THEN "Women"
        ELSE "Unspecified"

extract_gender(raw_name) ==
    LET lower == Lower(raw_name)
    IN  IF Contains(<<"w", "o", "m", "e", "n">>, lower) THEN "Women"
        ELSE IF Contains(<<"m", "e", "n">>, lower) THEN "Men"
        ELSE "Unspecified"

_strip_suffix(text, suffix) ==
    IF EndsWith(text, suffix)
    THEN RStrip(SubSeq(text, 1, Len(text) - Len(suffix)))
    ELSE text

\* str.rfind: the start, counted from 0, of the last occurrence of sub
RFind(str, sub) ==
    LET at == {k \in 0..(Len(str) - Len(sub)) : SubSeq(str, k + 1, k + Len(sub)) = sub}
    IN  CHOOSE k \in at : \A j \in at : j <= k

_strip_suffix_case_insensitive(text, suffix) ==
    LET lower_text == Lower(text)
        lower_suffix == Lower(suffix)
    IN  IF EndsWith(lower_text, lower_suffix)
        THEN RStrip(SubSeq(text, 1, RFind(lower_text, lower_suffix)))
        ELSE text

\* f" - {gender.value}"
GenderSuffix(gender) == IF gender = "Men" THEN <<" ", "-", " ", "M", "e", "n">> ELSE <<" ", "-", " ", "W", "o", "m", "e", "n">>

normalize_sport_name(raw_name, gender) ==
    IF gender = "Unspecified" THEN raw_name
    ELSE LET suffix == GenderSuffix(gender)
             normalized == _strip_suffix(raw_name, suffix)
         IN  IF normalized = raw_name
             THEN _strip_suffix_case_insensitive(raw_name, suffix)
             ELSE normalized

\* " ".join(text.split()): runs of blanks become one blank, none at the ends
RECURSIVE JoinSplit(_)
JoinSplit(text) ==
    LET t == LStrip(text)
    IN  IF t = <<>> THEN <<>>
        ELSE IF Len(t) >= 2 /\ t[2] = " "
             THEN IF LStrip(Tail(t)) = <<>> THEN <<Head(t)>>
                  ELSE <<Head(t), " ">> \o JoinSplit(Tail(t))
             ELSE <<Head(t)>> \o JoinSplit(Tail(t))

NoSeasonName == [found |-> FALSE, name |-> <<>>]

\* extract_season_name: None when the header is absent or has no text
extract_season_name(season_block) ==
    IF ~season_block.header.present THEN NoSeasonName
    ELSE LET text == JoinSplit(Strip(season_block.header.text))
         IN  IF text = <<>> THEN NoSeasonName ELSE [found |-> TRUE, name |-> text]

\* Variant: a season name that is not recognized is taken for Fall.
map_season_default(season_name) ==
    LET lower == Lower(season_name)
    IN  IF Contains(<<"f", "a", "l", "l">>, lower) THEN [ok |-> TRUE, season |-> "Fall"]
        ELSE IF Contains(<<"w", "i", "n", "t", "e", "r">>, lower) THEN [ok |-> TRUE, season |-> "Winter"]
        ELSE IF Contains(<<"s", "p", "r", "i", "n", "g">>, lower) THEN [ok |-> TRUE, season |-> "Spring"]
        ELSE [ok |-> TRUE, season |-> "Fall"]

\* map_season; ok = FALSE: raise ValueError
map_season(season_name) ==
    LET lower == Lower(season_name)
    IN  IF Contains(<<"f", "a", "l", "l">>, lower) THEN [ok |-> TRUE, season |-> "Fall"]
        ELSE IF Contains(<<"w", "i", "n", "t", "e", "r">>, lower) THEN [ok |-> TRUE, season |-> "Winter"]
        ELSE IF Contains(<<"s", "p", "r", "i", "n", "g">>, lower) THEN [ok |-> TRUE, season |-> "Spring"]
        ELSE [ok |-> FALSE, season |-> "none"]

NCAA_BASE_URL == "https://www.ncaa.com"
NoUrl == <<>>

\* _parse_sport_tag; urljoin(base_url, href) of a path href
_parse_sport_tag(tag, base_url, table) ==
    LET raw_name == Strip(tag.text)
        gender == extract_gender(raw_name)
        name == normalize_sport_name(raw_name, gender)
    IN  [name |-> name, gender |-> resolve(table, name, gender),
         url |-> IF tag.href # <<>> THEN <<base_url>> \o tag.href ELSE NoUrl]

\* _extract_sports_data: tags without text are passed over
RECURSIVE _extract_sports_data(_, _, _)
_extract_sports_data(tags, base_url, table) ==
    IF tags = <<>> THEN <<>>
    ELSE IF Strip(Head(tags).text) = <<>>
         THEN _extract_sports_data(Tail(tags), base_url, table)
         ELSE <<_parse_sport_tag(Head(tags), base_url, table)>>
                  \o _extract_sports_data(Tail(tags), base_url, table)

\* the keys of _group_sports_by_name's dict, in insertion order
RECURSIVE GroupNames(_, _)
GroupNames(sports_data, seen) ==
    IF sports_data = <<>> THEN seen
    ELSE GroupNames(Tail(sports_data),
                    IF InList(Head(sports_data).name, seen) THEN seen
                    ELSE Append(seen, Head(sports_data).name))

\* grouped[name]: the entries of that name, in order
RECURSIVE GroupEntries(_, _)
GroupEntries(sports_data, name) ==
    IF sports_data = <<>> THEN <<>>
    ELSE IF Head(sports_data).name = name
         THEN <<Head(sports_data)>> \o GroupEntries(Tail(sports_data), name)
         ELSE GroupEntries(Tail(sports_data), name)

\* Variant: only a Men entry in the group makes the Unspecified one redundant.
_should_skip_unspecified_entry_men(gender, genders_in_group) ==
    gender = "Unspecified" /\ "Men" \in genders_in_group

_should_skip_unspecified_entry(gender, genders_in_group) ==
    gender = "Unspecified" /\ ("Men" \in genders_in_group \/ "Women" \in genders_in_group)

RECURSIVE CreateLoop(_, _, _, _)
CreateLoop(name, entries, season, genders_in_group) ==
    IF entries = <<>> THEN <<>>
    ELSE IF _should_skip_unspecified_entry(Head(entries).gender, genders_in_group)
         THEN CreateLoop(name, Tail(entries), season, genders_in_group)
         ELSE <<[name |-> name, season |-> season, gender |-> Head(entries).gender,
                 url |-> Head(entries).url]>>
                  \o CreateLoop(name, Tail(entries), season, genders_in_group)

_create_sports_from_group(name, entries, season) ==
    CreateLoop(name, entries, season, {entries[k].gender : k \in 1..Len(entries)})

RECURSIVE GroupsLoop(_, _, _)
GroupsLoop(names, sports_data, season) ==
    IF names = <<>> THEN <<>>
    ELSE _create_sports_from_group(Head(names), GroupEntries(sports_data, Head(names)), season)
             \o GroupsLoop(Tail(names), sports_data, season)

\* _parse_season_block; ok = FALSE: the ValueError of map_season
_parse_season_block(season_block, base_url, table) ==
    LET raw_season_name == extract_season_name(season_block)
    IN  IF ~raw_season_name.found THEN [ok |-> TRUE, sports |-> <<>>]
        ELSE LET season == map_season(raw_season_name.name)
             IN  IF ~season.ok THEN [ok |-> FALSE, sports |-> <<>>]
                 ELSE LET sports_data ==
                              _extract_sports_data(season_block.tags, base_url, table)
                      IN  [ok |-> TRUE,
                           sports |-> GroupsLoop(GroupNames(sports_data, <<>>), sports_data,
                                                 season.season)]

RECURSIVE BlocksLoop(_, _, _, _)
BlocksLoop(blocks, base_url, table, sports) ==
    IF blocks = <<>> THEN [ok |-> TRUE, error |-> "none", sports |-> sports]
    ELSE LET r == _parse_season_block(Head(blocks), base_url, table)
         IN  IF ~r.ok THEN [ok |-> FALSE, error |-> "ValueError", sports |-> <<>>]
             ELSE BlocksLoop(Tail(blocks), base_url, table, sports \o r.sports)

\* parse_sports with the default base_url and a new DefaultGenderResolver;
\* ok = FALSE: the call raises and returns nothing
parse_sports(html) ==
    IF ~html.nav THEN [ok |-> FALSE, error |-> "ValueError", sports |-> <<>>]
    ELSE BlocksLoop(html.blocks, NCAA_BASE_URL, BuiltinDefaults, <<>>)

\* The sport tags: their text and the path of their href (none for a span).
TagUniverse ==
    {[text |-> <<"S", "o", "c", "c", "e", "r", " ", "-", " ", "M", "e", "n">>,
      href |-> <<"/soccer-men">>],
     [text |-> <<"S", "o", "c", "c", "e", "r", " ", "-", " ", "W", "o", "m", "e", "n">>,
      href |-> <<"/soccer-women">>],
     [text |-> <<" ", "S", "o", "c", "c", "e", "r", " ", "-", " ", "W", "O", "M", "E", "N", " ">>,
      href |-> <<"/w">>],
     [text |-> <<"S", "o", "c", "c", "e", "r">>,
      href |-> <<>>],
     [text |-> <<"F", "o", "o", "t", "b", "a", "l", "l">>,
      href |-> <<"/football">>],
     [text |-> <<"R", "i", "f", "l", "e">>,
      href |-> <<>>],
     [text |-> <<" ", " ">>,
      href |-> <<"/blank">>]}

\* The .season-header of a block.
HeaderUniverse ==
    {[present |-> TRUE, text |-> <<"F", "a", "l", "l", " ", " ", "S", "p", "o", "r", "t", "s">>],
     [present |-> TRUE, text |-> <<"W", "I", "N", "T", "E", "R">>],
     [present |-> TRUE, text |-> <<"s", "p", "r", "i", "n", "g", " ", "s", "e", "a", "s", "o", "n">>],
     [present |-> TRUE, text |-> <<"S", "u", "m", "m", "e", "r">>],
     [present |-> TRUE, text |-> <<" ">>],
     [present |-> FALSE, text |-> <<>>]}

FallHeader == [present |-> TRUE, text |-> <<"F", "a", "l", "l", " ", " ", "S", "p", "o", "r", "t", "s">>]

\* Documents with one Fall block of up to MaxEntries sport tags.
EntryDocs ==
    {[nav |-> TRUE, blocks |-> <<[header |-> FallHeader, tags |-> tags]>>] :
        tags \in UNION {[1..n -> TagUniverse] : n \in 0..MaxEntries}}

\* Documents with or without the container and up to MaxBlocks blocks, each
\* with any of the headers and one sport tag.
SeasonDocs ==
    {[nav |-> nav, blocks |-> blocks] :
        nav \in BOOLEAN,
        blocks \in UNION {[1..n -> {[header |-> h, tags |-> <<[text |-> <<"F", "o", "o", "t", "b", "a", "l", "l">>, href |-> <<"/football">>]>>] :
                                        h \in HeaderUniverse}] : n \in 0..MaxBlocks}}

Docs == EntryDocs \cup SeasonDocs

NoParse == [op |-> "none", ok |-> TRUE, error |-> "none", sports |-> <<>>]

ParserIdle ==
    /\ doc = [nav |-> TRUE, blocks |-> <<>>]
    /\ pres = NoParse

NoBuilderCall == [op |-> "none", days |-> 1, result |-> Ok(NoValue), client |-> <<>>,
                  http |-> <<>>]
NoBuilder == [obj |-> [kind |-> "none"], last |-> NoBuilderCall]
NoRoundTrip == [op |-> "none", body |-> <<>>, original |-> [ok |-> FALSE], cache |-> <<>>,
                result |-> [ok |-> FALSE], calls |-> 0]
NoLimiterCall == [op |-> "none", identifier |-> "none", status_code |-> 0]
NoLimiter == [requests_per_minute |-> 0, requests |-> <<>>, admitted |-> <<>>, utcnow |-> 0,
              last |-> NoLimiterCall]
NoObservableCall == [op |-> "none", observer |-> "none", result |-> Ok(NoValue),
                     events |-> <<>>]
NoObservable == [observers |-> <<>>, last |-> NoObservableCall]

BuilderIdle == builder = NoBuilder
RoundTripIdle == rt = NoRoundTrip
LimiterIdle == limiter = NoLimiter
ObserverIdle == obs = NoObservable

ExtIdle ==
    /\ BuilderIdle
    /\ RoundTripIdle
    /\ LimiterIdle
    /\ ObserverIdle

LibIdle ==
    /\ FilterIdle
    /\ GenderIdle
    /\ ParserIdle
    /\ ExtIdle

----------------------------------------------------------------------------
(* Operations on the outermost decorator of the chain *)

NoReq == [kind |-> "none", a1 |-> <<>>, a2 |-> <<>>, date |-> <<>>]
(* n: the seconds of set_cache_duration; for clear_cache the number of     *)
(* entries the call dropped.                                                *)
NoOp == [op |-> "none", req |-> NoReq, days |-> 0, n |-> 0, result |-> Ok(NoValue),
         calls |-> NoCalls, http |-> <<>>]

RECURSIVE SumOver(_, _)
SumOver(S, f) ==
    IF S = {} THEN 0
    ELSE LET x == CHOOSE y \in S : TRUE IN f[x] + SumOver(S \ {x}, f)

Entries(c) == SumOver(CacheLayers, [i \in CacheLayers |-> Cardinality(DOMAIN c[i])])

InitCache ==
    /\ cache = [i \in CacheLayers |-> EmptyCache]
    /\ ttl \in [CacheLayers -> 0..MaxTTL]
    /\ now = 0
    /\ last = NoOp
    /\ today = 0
    /\ clientLast = NoOp
    /\ AuthIdle
    /\ LibIdle

Get(op, kind) ==
    \E p \in ArgsOf(kind), date \in Dates, http \in HttpOutcomes,
       d \in Latencies :
        /\ now + d <= MaxTime
        /\ LET req == [kind |-> kind, a1 |-> p[1], a2 |-> p[2], date |-> date]
               r == Chain_get(1, req, cache, ttl, now, now + d, http)
           IN  /\ cache' = r.cache
               /\ last' = [op |-> op, req |-> req, days |-> 0, n |-> 0,
                           result |-> r.result, calls |-> r.calls, http |-> r.http]
        /\ now' = now + d
        /\ UNCHANGED <<ttl, today, clientLast, authVars, libVars>>

GetScoreboard == Get("get_scoreboard", "scoreboard")

GetSchedule == Get("get_schedule", "schedule")

GetTodays(op, kind) ==
    \E p \in PassArgsOf(kind), http \in PassOutcomes :
        /\ LET a1 == p[1]
               a2 == p[2]
               r == Client_get_todays(kind, a1, a2, today, http)
               ch == Chain_delegate(1, cache)
           IN  /\ cache' = ch.cache
               /\ last' = [op |-> op,
                           req |-> [kind |-> kind, a1 |-> a1, a2 |-> a2,
                                    date |-> get_today_date_string(today)],
                           days |-> 0, n |-> 0, result |-> r.result,
                           calls |-> ch.calls, http |-> r.http]
        /\ UNCHANGED <<ttl, now, today, clientLast, authVars, libVars>>

GetTodaysScoreboard == GetTodays("get_todays_scoreboard", "scoreboard")

GetTodaysSchedule == GetTodays("get_todays_schedule", "schedule")

UpcomingResult(r) ==
    IF r.ok THEN Ok([kind |-> "schedules", body |-> r.schedules]) ELSE Raise(r.error)

GetUpcomingSchedules ==
    \E p \in PassArgsOf("schedule"), days \in 0..MaxDays :
      \E out \in PassOutcomes :
        /\ LET a1 == p[1]
               outs == [k \in 1..days |-> out]
               a2 == p[2]
               r == Client_get_upcoming_schedules(a1, a2, days,
                                                  [k \in 1..days |-> today], outs)
               ch == Chain_delegate(1, cache)
           IN  /\ cache' = ch.cache
               /\ last' = [op |-> "get_upcoming_schedules",
                           req |-> [kind |-> "schedule", a1 |-> a1, a2 |-> a2,
                                    date |-> get_today_date_string(today)],
                           days |-> days, n |-> 0, result |-> UpcomingResult(r),
                           calls |-> ch.calls, http |-> r.http]
        /\ UNCHANGED <<ttl, now, today, clientLast, authVars, libVars>>

ClearCache ==
    /\ LET r == Chain_clear_cache(1, cache)
       IN  /\ cache' = r.cache
           /\ last' = [NoOp EXCEPT !.op = "clear_cache", !.n = Entries(cache),
                                   !.calls = r.calls]
    /\ UNCHANGED <<ttl, now, today, clientLast, authVars, libVars>>

SetCacheDuration ==
    \E seconds \in 0..MaxTTL :
        /\ LET r == Chain_set_cache_duration(1, ttl, seconds)
           IN  /\ ttl' = r.ttl
               /\ last' = [NoOp EXCEPT !.op = "set_cache_duration", !.n = seconds,
                                       !.calls = r.calls]
        /\ UNCHANGED <<cache, now, today, clientLast, authVars, libVars>>

Tick ==
    /\ now < MaxTime
    /\ now' = now + 1
    /\ last' = [NoOp EXCEPT !.op = "tick"]
    /\ UNCHANGED <<cache, ttl, today, clientLast, authVars, libVars>>

NextCache ==
    \/ GetScoreboard
    \/ GetSchedule
    \/ GetTodaysScoreboard
    \/ GetTodaysSchedule
    \/ GetUpcomingSchedules
    \/ ClearCache
    \/ SetCacheDuration
    \/ Tick

SpecCache == InitCache /\ [][NextCache]_vars

----------------------------------------------------------------------------
(* Properties of the caching decorator *)

GetOps == {"get_scoreboard", "get_schedule"}
PassOps == {"get_todays_scoreboard", "get_todays_schedule", "get_upcoming_schedules"}

\* C1: a get_scoreboard/get_schedule call that arrives at a caching layer whose
\* map holds, under the call's key, an entry with now - stored_at < ttl returns
\* the stored value and does not call the wrapped client; any other such call
\* calls the wrapped client exactly once and, when that call returns a value,
\* stores (value, now) under the key.
C1_HitOrCallThrough ==
    [][\A i \in CacheLayers :
        (last'.op \in GetOps /\ last'.calls[i] = 1) =>
            LET key == KeyOf(last'.req)
            IN  IF key \in DOMAIN cache[i] /\ now - cache[i][key].timestamp < ttl[i]
                THEN /\ last'.calls[i + 1] = 0
                     /\ last'.result.ok
                     /\ model_dump(last'.result.value) = cache[i][key].data
                     /\ cache'[i] = cache[i]
                ELSE /\ last'.calls[i + 1] = 1
                     /\ last'.result.ok =>
                            /\ key \in DOMAIN cache'[i]
                            /\ cache'[i][key] =
                                   [data |-> model_dump(last'.result.value),
                                    timestamp |-> now']]_vars

\* A call answered from the cache at a time later than the entry was stored.
C1_Witness ==
    \E i \in CacheLayers :
        /\ last.op \in GetOps
        /\ last.calls[i] = 1
        /\ last.calls[i + 1] = 0
        /\ KeyOf(last.req) \in DOMAIN cache[i]
        /\ cache[i][KeyOf(last.req)].timestamp < now

\* C2: get_todays_scoreboard, get_todays_schedule and get_upcoming_schedules
\* leave every cache map as it was and reach the wrapped client of every layer,
\* whatever the maps hold.
C2_PassThrough ==
    [][last'.op \in PassOps =>
        /\ cache' = cache
        /\ \A j \in Layers : last'.calls[j] = 1]_vars

\* A today call made while the cache holds a fresh entry for the same
\* arguments and today's date.
C2_Witness ==
    \E i \in CacheLayers :
        /\ last.op \in {"get_todays_scoreboard", "get_todays_schedule"}
        /\ last.calls[i + 1] = 1
        /\ KeyOf(last.req) \in DOMAIN cache[i]
        /\ now - cache[i][KeyOf(last.req)].timestamp < ttl[i]

UrlOf(req) ==
    IF req.kind = "scoreboard"
    THEN build_scoreboard_url(CASABLANCA_SCOREBOARD_BASE_URL, req.a1, req.a2, req.date)
    ELSE build_schedule_url(CASABLANCA_SCHEDULE_BASE_URL, req.a1, req.a2, req.date)

\* C3: requests that differ in endpoint kind or in any argument never share a
\* cache entry: the value a get_scoreboard/get_schedule call returns is the
\* response to a request with the same endpoint kind and the same arguments.
C3_NoSharedEntry ==
    (last.op \in GetOps /\ last.result.ok) =>
        /\ last.result.value.kind = last.req.kind
        /\ last.result.value.body = UrlOf(last.req)

\* C4: clear_cache empties the map of every caching layer and calls the
\* clear_cache of every wrapped client exactly once; while the maps are empty a
\* get_scoreboard/get_schedule call reaches the wrapped client of every layer.
C4_ClearCache ==
    [][/\ last'.op = "clear_cache" =>
            /\ \A i \in CacheLayers : cache'[i] = EmptyCache
            /\ \A j \in Layers : last'.calls[j] = 1
       /\ (last.op = "clear_cache" /\ last'.op \in GetOps) =>
            \A j \in Layers : last'.calls[j] = 1]_vars

\* A clear_cache that dropped at least one entry.
C4_Witness ==
    /\ last.op = "clear_cache"
    /\ last.n > 0
    /\ \A i \in CacheLayers : cache[i] = EmptyCache

\* C5: set_cache_duration(seconds) sets the TTL of the outermost caching layer
\* and leaves every stored entry and timestamp as it was; whether an entry is
\* served afterwards is decided by now - stored_at < ttl with the entry's
\* original timestamp and the TTL in force at the lookup.
C5_SetCacheDuration ==
    [][/\ last'.op = "set_cache_duration" =>
            /\ cache' = cache
            /\ \E i \in CacheLayers :
                /\ \A j \in CacheLayers : i <= j
                /\ ttl' = [ttl EXCEPT ![i] = last'.n]
       /\ \A i \in CacheLayers :
            (last'.op \in GetOps /\ last'.calls[i] = 1
               /\ KeyOf(last'.req) \in DOMAIN cache[i]) =>
                (last'.calls[i + 1] = 0
                    <=> now - cache[i][KeyOf(last'.req)].timestamp < ttl[i])]_vars

\* set_cache_duration has just lowered or kept the TTL while an entry stored
\* earlier is in the map and is now stale under the TTL in force.
C5_Witness ==
    \E i \in CacheLayers :
        /\ last.op = "set_cache_duration"
        /\ ttl[i] = last.n
        /\ \E k \in DOMAIN cache[i] :
            /\ cache[i][k].timestamp < now
            /\ ~(now - cache[i][k].timestamp < ttl[i])

\* C26: when a get_scoreboard/get_schedule call misses at a caching layer and
\* the wrapped client raises, the call raises the error the CasablancaClient
\* raised, the layer's map holds no entry under the call's key afterwards
\* (an expired one is gone) and its other entries are as before; the next
\* get call with that key reaches the wrapped client again.
C26_FailureNotCached ==
    [][\A i \in CacheLayers :
        /\ (last'.op \in GetOps /\ last'.calls[i + 1] = 1 /\ ~last'.result.ok) =>
            LET key == KeyOf(last'.req)
            IN  /\ DOMAIN cache'[i] = DOMAIN cache[i] \ {key}
                /\ \A k \in DOMAIN cache'[i] : cache'[i][k] = cache[i][k]
                /\ Len(last'.http) = 1
                /\ last'.result =
                       Client_get(last'.req.kind, last'.req.a1, last'.req.a2,
                                  last'.req.date, last'.http[1].outcome).result
        /\ (last.op \in GetOps /\ last.calls[i + 1] = 1 /\ ~last.result.ok
              /\ last'.op \in GetOps /\ last'.calls[i] = 1
              /\ KeyOf(last'.req) = KeyOf(last.req)) =>
                last'.calls[i + 1] = 1]_vars

\* A miss has raised: the key has no entry, and an entry of another key,
\* stored earlier, is still in the map.
C26_Witness ==
    \E i \in CacheLayers :
        /\ last.op \in GetOps
        /\ last.calls[i + 1] = 1
        /\ ~last.result.ok
        /\ KeyOf(last.req) \notin DOMAIN cache[i]
        /\ now > 0
        /\ \E k \in DOMAIN cache[i] : cache[i][k].timestamp < now

\* C28: an entry of a caching layer's map is removed or replaced only by
\* clear_cache or by a get_scoreboard/get_schedule lookup of its own key that
\* finds it as old as the TTL or older; that lookup calls the wrapped client
\* and leaves (value, now) under the key when the call returns a value and no
\* entry when it raises.  The clock passing and every other operation leave
\* the entry in the map, however old it is.
C28_LazyEviction ==
    [][\A i \in CacheLayers : \A k \in DOMAIN cache[i] :
        (k \notin DOMAIN cache'[i] \/ cache'[i][k] # cache[i][k]) =>
            \/ last'.op = "clear_cache"
            \/ /\ last'.op \in GetOps
               /\ KeyOf(last'.req) = k
               /\ last'.calls[i] = 1
               /\ ~(now - cache[i][k].timestamp < ttl[i])
               /\ last'.calls[i + 1] = 1
               /\ IF last'.result.ok
                  THEN /\ k \in DOMAIN cache'[i]
                       /\ cache'[i][k] = [data |-> model_dump(last'.result.value),
                                          timestamp |-> now']
                  ELSE k \notin DOMAIN cache'[i]]_vars

\* The clock has just advanced and the map holds an entry older than the TTL.
C28_Witness ==
    \E i \in CacheLayers :
        /\ last.op = "tick"
        /\ ttl[i] > 0
        /\ \E k \in DOMAIN cache[i] : now - cache[i][k].timestamp > ttl[i]

----------------------------------------------------------------------------
(* Operations on a bare CasablancaClient.  In clientLast, n is the day the *)
(* call started on.                                                         *)

InitClient ==
    /\ cache = [i \in CacheLayers |-> EmptyCache]
    /\ ttl = [i \in CacheLayers |-> MaxTTL]
    /\ now = 0
    /\ last = NoOp
    /\ today = 0
    /\ clientLast = NoOp
    /\ AuthIdle
    /\ LibIdle

ClientDates == {FormatDate(d) : d \in 0..MaxDay}

ClientGet(op, kind) ==
    \E p \in PassArgsOf(kind), date \in ClientDates, http \in HttpOutcomes :
        /\ LET r == Client_get(kind, p[1], p[2], date, http)
           IN  clientLast' = [op |-> op,
                              req |-> [kind |-> kind, a1 |-> p[1], a2 |-> p[2],
                                       date |-> date],
                              days |-> 0, n |-> today, result |-> r.result,
                              calls |-> NoCalls, http |-> r.http]
        /\ UNCHANGED <<cache, ttl, now, last, today, authVars, libVars>>

ClientGetScoreboard == ClientGet("get_scoreboard", "scoreboard")

ClientGetSchedule == ClientGet("get_schedule", "schedule")

ClientGetTodays(op, kind) ==
    \E p \in PassArgsOf(kind), http \in HttpOutcomes :
        /\ LET r == Client_get_todays(kind, p[1], p[2], today, http)
           IN  clientLast' = [op |-> op,
                              req |-> [kind |-> kind, a1 |-> p[1], a2 |-> p[2],
                                       date |-> get_today_date_string(today)],
                              days |-> 0, n |-> today, result |-> r.result,
                              calls |-> NoCalls, http |-> r.http]
        /\ UNCHANGED <<cache, ttl, now, last, today, authVars, libVars>>

ClientGetTodaysScoreboard == ClientGetTodays("get_todays_scoreboard", "scoreboard")

ClientGetTodaysSchedule == ClientGetTodays("get_todays_schedule", "schedule")

(* midnight = m: iterations m, m+1, ... of the loop (counted from 0) read  *)
(* the clock after midnight has passed; m = days: midnight does not pass    *)
(* while the loop runs.                                                     *)
ClientGetUpcomingSchedules ==
    \E p \in PassArgsOf("schedule"), days \in 0..MaxDays :
      \E outs \in [1..days -> HttpOutcomes], midnight \in 1..days \cup {days} :
        /\ (midnight < days) => today < MaxDay
        /\ LET dayAt == [k \in 1..days |-> IF k - 1 >= midnight THEN today + 1 ELSE today]
               r == Client_get_upcoming_schedules(p[1], p[2], days, dayAt, outs)
           IN  clientLast' = [op |-> "get_upcoming_schedules",
                              req |-> [kind |-> "schedule", a1 |-> p[1], a2 |-> p[2],
                                       date |-> get_today_date_string(today)],
                              days |-> days, n |-> today, result |-> UpcomingResult(r),
                              calls |-> NoCalls, http |-> r.http]
        /\ today' = IF midnight < days THEN today + 1 ELSE today
        /\ UNCHANGED <<cache, ttl, now, last, authVars, libVars>>

Midnight ==
    /\ today < MaxDay
    /\ today' = today + 1
    /\ clientLast' = [NoOp EXCEPT !.op = "midnight"]
    /\ UNCHANGED <<cache, ttl, now, last, authVars, libVars>>

NextClient ==
    \/ ClientGetScoreboard
    \/ ClientGetSchedule
    \/ ClientGetTodaysScoreboard
    \/ ClientGetTodaysSchedule
    \/ ClientGetUpcomingSchedules
    \/ Midnight

SpecClient == InitClient /\ [][NextClient]_vars

----------------------------------------------------------------------------
(* Properties of the CasablancaClient *)

Outcomes(attempts) == [k \in 1..Len(attempts) |-> attempts[k].outcome]
Urls(attempts) == [k \in 1..Len(attempts) |-> attempts[k].url]

RECURSIVE OkBodies(_)
OkBodies(attempts) ==
    IF attempts = <<>> THEN <<>>
    ELSE IF Head(attempts).outcome = "ok"
         THEN <<[kind |-> "schedule", body |-> Head(attempts).url]>> \o OkBodies(Tail(attempts))
         ELSE OkBodies(Tail(attempts))

ScheduleUrlFor(req, day) ==
    build_schedule_url(CASABLANCA_SCHEDULE_BASE_URL, req.a1, req.a2, FormatDate(day))

\* C6: a get_upcoming_schedules(sport, division, days) call that returns has
\* issued exactly days schedule requests, in order, for the day the call started
\* on and the days - 1 days after it, and returns the responses of the requests
\* that did not fail, in that order.
C6_ConsecutiveDays ==
    (clientLast.op = "get_upcoming_schedules" /\ clientLast.result.ok) =>
        /\ Len(clientLast.http) = clientLast.days
        /\ \A k \in 1..Len(clientLast.http) :
               clientLast.http[k].url = ScheduleUrlFor(clientLast.req, clientLast.n + k - 1)
        /\ clientLast.result.value.body = OkBodies(clientLast.http)

ClientGetOps == {"get_scoreboard", "get_schedule", "get_todays_scoreboard",
                 "get_todays_schedule"}

\* C8: a single scoreboard/schedule request makes exactly one GET, and when the
\* GET fails in the transport or answers non-2xx the call raises a
\* CasablancaClientError carrying the requested URL and the cause.
C8_OneErrorKindNoRetry ==
    clientLast.op \in ClientGetOps =>
        /\ Len(clientLast.http) = 1
        /\ clientLast.http[1].url = UrlOf(clientLast.req)
        /\ clientLast.http[1].outcome \in TransportFailures =>
              /\ ~clientLast.result.ok
              /\ clientLast.result.error =
                     [kind |-> "CasablancaClientError",
                      url |-> UrlOf(clientLast.req),
                      cause |-> clientLast.http[1].outcome]

\* A get_schedule whose GET was answered with a non-2xx status.
C8_Witness ==
    /\ clientLast.op = "get_schedule"
    /\ Len(clientLast.http) = 1
    /\ clientLast.http[1].outcome = "http_status"
    /\ ~clientLast.result.ok

----------------------------------------------------------------------------
(* Operations of the AuthService.  Every repository call is one step.      *)

\* the call ends with an exception: its locals are gone, nothing is returned
Raised(q, outcome) ==
    [IdleRequest EXCEPT !.pc = "done", !.token = q.token, !.outcome = outcome]

\* POST /token: create_token_pair for an authenticated user
Login ==
    \E u \in Users :
        /\ userState[u] # "missing"
        /\ DOMAIN tokens # TokenIds
        /\ families' = families + 1
        /\ tokens' = Repo_create(tokens, u, FreshToken(tokens), families + 1,
                                 clock + ExpireDays)
        /\ UNCHANGED <<userState, rq, clock, ncaaVars, libVars>>

\* refresh_access_token, line 116: get_by_token
RefreshLookup ==
    \E r \in Slots, t \in TokenIds :
        /\ rq[r].pc = "idle"
        /\ rq' = [rq EXCEPT ![r] =
                    IF t \in DOMAIN tokens
                    THEN [IdleRequest EXCEPT !.pc = "got", !.token = t,
                                             !.stored = tokens[t]]
                    ELSE Raised([IdleRequest EXCEPT !.token = t], "not_found")]
        /\ UNCHANGED <<tokens, userState, clock, families, ncaaVars, libVars>>

\* lines 121-128: the revoked and expiry checks on the row read, then
\* revoke_family or revoke_by_token
RefreshRevoke ==
    \E r \in Slots :
        /\ rq[r].pc = "got"
        /\ IF rq[r].stored.revoked
           THEN /\ tokens' = Repo_revoke_family(tokens, rq[r].stored.token_family)
                /\ rq' = [rq EXCEPT ![r] = Raised(@, "revoked")]
           ELSE IF Expired(rq[r].stored, clock)
           THEN /\ tokens' = tokens
                /\ rq' = [rq EXCEPT ![r] = Raised(@, "expired")]
           ELSE /\ tokens' = Repo_revoke_by_token(tokens, rq[r].token)
                /\ rq' = [rq EXCEPT ![r].pc = "revoked"]
        /\ UNCHANGED <<userState, clock, families, ncaaVars, libVars>>

\* lines 130-137: get_by_id and the checks on the user
RefreshGetUser ==
    \E r \in Slots :
        /\ rq[r].pc = "revoked"
        /\ LET s == userState[rq[r].stored.user_id]
           IN  rq' = [rq EXCEPT ![r] =
                        IF s = "missing"
                        THEN Raised(@, "user_not_found")
                        ELSE IF s = "inactive"
                        THEN Raised(@, "user_inactive")
                        ELSE [@ EXCEPT !.pc = "user_ok",
                                       !.access = create_access_token(rq[r].stored.user_id)]]
        /\ UNCHANGED <<tokens, userState, clock, families, ncaaVars, libVars>>

\* lines 138-140: create_refresh_token in the family of the row read; the
\* INSERT fails on the foreign key when the user row is gone
RefreshCreate ==
    \E r \in Slots :
        /\ rq[r].pc = "user_ok"
        /\ IF userState[rq[r].stored.user_id] = "missing"
           THEN /\ tokens' = tokens
                /\ rq' = [rq EXCEPT ![r] = Raised(@, "db_error")]
           ELSE /\ DOMAIN tokens # TokenIds
                /\ tokens' = Repo_create(tokens, rq[r].stored.user_id, FreshToken(tokens),
                                         rq[r].stored.token_family, clock + ExpireDays)
                /\ rq' = [rq EXCEPT ![r] = [IdleRequest EXCEPT
                                    !.pc = "done", !.token = rq[r].token, !.outcome = "ok",
                                    !.access = rq[r].access,
                                    !.refresh = FreshToken(tokens)]]
        /\ UNCHANGED <<userState, clock, families, ncaaVars, libVars>>

\* the response has been sent; the slot serves the next request
RefreshReturn ==
    \E r \in Slots :
        /\ rq[r].pc = "done"
        /\ rq' = [rq EXCEPT ![r] = IdleRequest]
        /\ UNCHANGED <<tokens, userState, clock, families, ncaaVars, libVars>>

\* POST /revoke: revoke_refresh_token
RevokeRefreshToken ==
    \E t \in TokenIds :
        /\ tokens' = Repo_revoke_by_token(tokens, t)
        /\ UNCHANGED <<userState, rq, clock, families, ncaaVars, libVars>>

RevokeAllUserTokens ==
    \E u \in Users :
        /\ tokens' = Repo_revoke_all_for_user(tokens, u)
        /\ UNCHANGED <<userState, rq, clock, families, ncaaVars, libVars>>

\* users.is_active set to FALSE by an administrator
DeactivateUser ==
    \E u \in Users :
        /\ userState[u] = "active"
        /\ userState' = [userState EXCEPT ![u] = "inactive"]
        /\ UNCHANGED <<tokens, rq, clock, families, ncaaVars, libVars>>

\* the users row deleted; refresh_tokens.user_id is ON DELETE CASCADE
DeleteUser ==
    \E u \in Users :
        /\ userState[u] # "missing"
        /\ userState' = [userState EXCEPT ![u] = "missing"]
        /\ tokens' = [k \in {j \in DOMAIN tokens : tokens[j].user_id # u} |-> tokens[k]]
        /\ UNCHANGED <<rq, clock, families, ncaaVars, libVars>>

\* more than the lifetime of a refresh token passes, in days; the clock is
\* read before and after one such interval
ClockTick ==
    /\ clock = 0
    /\ clock' = clock + ExpireDays + 1
    /\ UNCHANGED <<tokens, userState, rq, families, ncaaVars, libVars>>

InitAuth ==
    /\ cache = [i \in CacheLayers |-> EmptyCache]
    /\ ttl = [i \in CacheLayers |-> MaxTTL]
    /\ now = 0
    /\ last = NoOp
    /\ today = 0
    /\ clientLast = NoOp
    /\ AuthIdle
    /\ LibIdle

NextAuth ==
    \/ Login
    \/ RefreshLookup
    \/ RefreshRevoke
    \/ RefreshGetUser
    \/ RefreshCreate
    \/ RefreshReturn
    \/ RevokeRefreshToken
    \/ RevokeAllUserTokens
    \/ DeactivateUser
    \/ DeleteUser
    \/ ClockTick

SpecAuth == InitAuth /\ [][NextAuth]_vars

----------------------------------------------------------------------------
(* Properties of refresh_access_token *)

\* C9: a refresh_access_token(t) call that returns a token pair has revoked t,
\* and its last step inserts exactly one token row: a token no row had, not
\* revoked, in the token family and for the user of t; the call returns that
\* token together with an access token for the user.  No other step of a
\* refresh_access_token call inserts a row.
C9_RotateOnSuccess ==
    [][\A r \in Slots :
        /\ (rq[r].pc # "done" /\ rq'[r].pc = "done" /\ rq'[r].outcome = "ok") =>
            LET t == rq[r].token
                n == rq'[r].refresh
            IN  /\ ~rq[r].stored.revoked
                /\ t \in DOMAIN tokens'
                /\ tokens'[t].revoked
                /\ n \notin DOMAIN tokens
                /\ DOMAIN tokens' = DOMAIN tokens \cup {n}
                /\ \A k \in DOMAIN tokens : tokens'[k] = tokens[k]
                /\ tokens'[n].token_family = tokens'[t].token_family
                /\ tokens'[n].user_id = tokens'[t].user_id
                /\ ~tokens'[n].revoked
                /\ tokens'[n].expires_at = clock + ExpireDays
                /\ rq'[r].access = create_access_token(tokens'[t].user_id)
        /\ (rq'[r] # rq[r] /\ rq'[r].outcome # "ok") => DOMAIN tokens' = DOMAIN tokens]_vars

\* A refresh has returned a pair: the token presented is revoked and the token
\* returned is a live row of the same family.
C9_Witness ==
    \E r \in Slots :
        /\ rq[r].outcome = "ok"
        /\ rq[r].token \in DOMAIN tokens
        /\ rq[r].refresh \in DOMAIN tokens
        /\ tokens[rq[r].token].revoked
        /\ ~tokens[rq[r].refresh].revoked
        /\ tokens[rq[r].refresh].token_family = tokens[rq[r].token].token_family

\* C10: refresh_access_token reads the row of the token presented; when that
\* row is revoked its next step leaves every row of the row's family revoked,
\* changes no row of another family, inserts none, and the call ends with
\* InvalidRefreshTokenException, returning neither an access nor a refresh token.
C10_ReuseRevokesFamily ==
    [][\A r \in Slots :
        /\ (rq[r].pc = "idle" /\ rq'[r].pc = "got") =>
                rq'[r].stored = tokens[rq'[r].token]
        /\ (rq[r].pc = "got" /\ rq[r].stored.revoked /\ rq'[r] # rq[r]) =>
            LET F == rq[r].stored.token_family
            IN  /\ DOMAIN tokens' = DOMAIN tokens
                /\ \A k \in DOMAIN tokens :
                       IF tokens[k].token_family = F
                       THEN tokens'[k] = [tokens[k] EXCEPT !.revoked = TRUE]
                       ELSE tokens'[k] = tokens[k]
                /\ rq'[r].pc = "done"
                /\ rq'[r].outcome = "revoked"
                /\ rq'[r].access = NoAccess
                /\ rq'[r].refresh = 0]_vars

\* A revoked token was presented: its family holds another token, every token
\* of the family is revoked, and a token of another family is still live.
C10_Witness ==
    \E r \in Slots :
        /\ rq[r].outcome = "revoked"
        /\ rq[r].token \in DOMAIN tokens
        /\ \E k \in DOMAIN tokens :
            /\ k # rq[r].token
            /\ tokens[k].token_family = tokens[rq[r].token].token_family
        /\ \A k \in DOMAIN tokens :
            tokens[k].token_family = tokens[rq[r].token].token_family => tokens[k].revoked
        /\ \E k \in DOMAIN tokens :
            /\ tokens[k].token_family # tokens[rq[r].token].token_family
            /\ ~tokens[k].revoked

\* C11: a refresh_access_token call that presents a token no row holds, or
\* whose row read is not revoked and has expires_at before the current time,
\* ends with InvalidRefreshTokenException (not found, expired), returns no
\* token, and none of its steps changes a row of refresh_tokens or adds one.
C11_RejectLeavesStore ==
    [][\A r \in Slots :
        /\ (rq[r].pc = "idle" /\ rq'[r] # rq[r]) =>
            /\ tokens' = tokens
            /\ rq'[r].token \notin DOMAIN tokens =>
                rq'[r] = [IdleRequest EXCEPT !.pc = "done", !.token = rq'[r].token,
                                             !.outcome = "not_found"]
        /\ (rq[r].pc = "got" /\ ~rq[r].stored.revoked
              /\ rq[r].stored.expires_at < clock /\ rq'[r] # rq[r]) =>
            /\ tokens' = tokens
            /\ rq'[r] = [IdleRequest EXCEPT !.pc = "done", !.token = rq[r].token,
                                            !.outcome = "expired"]]_vars

\* One call was refused because its token, still stored and not revoked, has
\* expired, and another because its token is not stored.
C11_Witness ==
    \E r, q \in Slots :
        /\ rq[r].outcome = "expired"
        /\ rq[r].token \in DOMAIN tokens
        /\ ~tokens[rq[r].token].revoked
        /\ tokens[rq[r].token].expires_at < clock
        /\ rq[q].outcome = "not_found"
        /\ rq[q].token \notin DOMAIN tokens

\* C24: of the refresh_access_token calls that present one token, at most one
\* returns a token pair: no two calls have returned a pair for the same token.
C24_ExchangedAtMostOnce ==
    \A r, q \in Slots :
        (r # q /\ rq[r].pc = "done" /\ rq[r].outcome = "ok"
               /\ rq[q].pc = "done" /\ rq[q].outcome = "ok") =>
            rq[r].token # rq[q].token

\* C25: once a call has been refused for reuse and has run revoke_family(F),
\* no token of F can be exchanged: a refresh_access_token call that reads the
\* row of a token of F after that reads a row it will refuse (revoked, or
\* expired, or of a user who is gone or inactive), also when the token is one
\* that a refresh in progress created after the revocation.
C25_FamilyStaysRevoked ==
    [][\A r \in Slots :
          (/\ rq[r].pc = "idle"
           /\ rq'[r].pc = "got"
           /\ FamilyRevokedBy(rq, tokens, rq'[r].stored.token_family)) =>
              \/ rq'[r].stored.revoked
              \/ Expired(rq'[r].stored, clock)
              \/ userState[rq'[r].stored.user_id] # "active"]_vars

----------------------------------------------------------------------------
(* Operations on the game filters and on one FilterChain *)

NcaaIdle ==
    /\ cache = [i \in CacheLayers |-> EmptyCache]
    /\ ttl = [i \in CacheLayers |-> MaxTTL]
    /\ now = 0
    /\ last = NoOp
    /\ today = 0
    /\ clientLast = NoOp

InitFilters ==
    /\ NcaaIdle
    /\ AuthIdle
    /\ games \in GameLists
    /\ filters = <<>>
    /\ fres = NoFilterCall
    /\ GenderIdle
    /\ ParserIdle
    /\ ExtIdle

\* f.filter(games) on one of the filter objects
ApplyFilter ==
    \E f \in FilterObjects :
        /\ fres' = [op |-> "filter", filter |-> f, chain |-> <<>>,
                    out |-> Filter_filter(f, games), calls |-> <<>>]
        /\ UNCHANGED <<games, filters, ncaaVars, authVars, genderVars, parserVars, extVars>>

\* chain.add_filter(f)
AddFilter ==
    \E f \in FilterObjects :
        /\ Len(filters) < MaxFilters
        /\ filters' = Append(filters, f)
        /\ UNCHANGED <<games, fres, ncaaVars, authVars, genderVars, parserVars, extVars>>

\* chain.filter(games)
ChainFilter ==
    /\ LET r == FilterChain_filter(filters, games, games, <<>>)
       IN  fres' = [op |-> "chain", filter |-> NoFilterCall.filter, chain |-> filters,
                    out |-> r.out, calls |-> r.calls]
    /\ UNCHANGED <<games, filters, ncaaVars, authVars, genderVars, parserVars, extVars>>

NextFilters ==
    \/ ApplyFilter

SpecFilters == InitFilters /\ [][NextFilters]_vars

InitChain ==
    /\ NcaaIdle
    /\ AuthIdle
    /\ games \in ChainGameLists
    /\ filters = <<>>
    /\ fres = NoFilterCall
    /\ GenderIdle
    /\ ParserIdle
    /\ ExtIdle

NextChain ==
    \/ AddFilter
    \/ ChainFilter

SpecChain == InitChain /\ [][NextChain]_vars

----------------------------------------------------------------------------
(* Properties of the game filters *)

\* out holds exactly the elements of list at the positions in keep, in order
IsSelection(out, list, keep) ==
    \E idx \in [1..Len(out) -> 1..Len(list)] :
        /\ \A j, k \in 1..Len(out) : j < k => idx[j] < idx[k]
        /\ {idx[k] : k \in 1..Len(out)} = keep
        /\ \A k \in 1..Len(out) : out[k] = list[idx[k]]

StatesKept(kind) ==
    CASE kind = "live" -> {"in", "inprogress"}
      [] kind = "completed" -> {"post", "final"}
      [] kind = "scheduled" -> {"pre", "scheduled"}

StateFilterKinds == {"live", "completed", "scheduled"}

\* C12: LiveGameFilter, CompletedGameFilter and ScheduledGameFilter return the
\* games of the input whose state is in {in, inprogress}, {post, final} and
\* {pre, scheduled} respectively, in input order, and leave the input list as
\* it was; no postponed or cancelled game is in the result of any of them.
C12_StateFilters ==
    [][(fres'.op = "filter" /\ fres'.filter.kind \in StateFilterKinds) =>
        /\ games' = games
        /\ IsSelection(fres'.out, games,
                       {k \in 1..Len(games) :
                            games[k].gameState \in StatesKept(fres'.filter.kind)})
        /\ \A k \in 1..Len(fres'.out) :
               fres'.out[k].gameState \notin {"postponed", "cancelled"}]_vars

\* ScheduledGameFilter applied to a list with a postponed or cancelled game
\* and a game it keeps.
C12_Witness ==
    /\ fres.op = "filter"
    /\ fres.filter = ScheduledGameFilter
    /\ \E k \in 1..Len(games) : games[k].gameState \in {"postponed", "cancelled"}
    /\ Len(fres.out) = 1

\* C13: FilterChain.filter calls its filters in the order they were added, the
\* first with the chain's input and each later one with the result of the one
\* before, and returns the last result: with filters <<A, B>> that is
\* B.filter(A.filter(g)); with no filters it returns its input.
C13_ChainLeftToRight ==
    fres.op = "chain" =>
        /\ fres.chain = SubSeq(filters, 1, Len(fres.chain))
        /\ Len(fres.calls) = Len(fres.chain)
        /\ \A k \in 1..Len(fres.chain) :
            /\ fres.calls[k].filter = fres.chain[k]
            /\ fres.calls[k].input =
                   IF k = 1 THEN games
                   ELSE Filter_filter(fres.chain[k - 1], fres.calls[k - 1].input)
        /\ fres.chain = <<>> => fres.out = games
        /\ Len(fres.chain) = 2 =>
               fres.out = Filter_filter(fres.chain[2], Filter_filter(fres.chain[1], games))

\* A chain of two different filters, the first of which drops a game that the
\* second alone would keep.
C13_Witness ==
    /\ fres.op = "chain"
    /\ Len(fres.chain) = 2
    /\ fres.chain[1] # fres.chain[2]
    /\ Len(Filter_filter(fres.chain[1], games)) < Len(games)
    /\ Len(fres.out) < Len(Filter_filter(fres.chain[2], games))

Reversed(seq) == [k \in 1..Len(seq) |-> seq[Len(seq) + 1 - k]]

\* C14: a FilterChain of two filters returns what the chain of the same two
\* filters in the other order returns.
C14_OrderIrrelevant ==
    (fres.op = "chain" /\ Len(fres.chain) = 2) =>
        fres.out = FilterChain_filter(Reversed(fres.chain), games, games, <<>>).out

\* A chain of two different filters each of which drops a game the other keeps.
C14_Witness ==
    /\ fres.op = "chain"
    /\ Len(fres.chain) = 2
    /\ \E j, k \in 1..Len(games) :
        /\ Keeps(fres.chain[1], games[j]) /\ ~Keeps(fres.chain[2], games[j])
        /\ Keeps(fres.chain[2], games[k]) /\ ~Keeps(fres.chain[1], games[k])

\* C15: LiveGameFilter.filter applied to its own result returns that result.
C15_LiveIdempotent ==
    (fres.op = "filter" /\ fres.filter = LiveGameFilter) =>
        Filter_filter(LiveGameFilter, fres.out) = fres.out

\* LiveGameFilter has kept one game of a list and dropped another.
C15_Witness ==
    /\ fres.op = "filter"
    /\ fres.filter = LiveGameFilter
    /\ fres.out # <<>>
    /\ Len(fres.out) < Len(games)

----------------------------------------------------------------------------
(* Operations on the gender resolver instances *)

InitGender ==
    /\ NcaaIdle
    /\ AuthIdle
    /\ FilterIdle
    /\ GenderIdle
    /\ ParserIdle
    /\ ExtIdle

\* resolver.resolve(sport_name, text_gender)
Resolve ==
    \E i \in Resolvers, n \in SportNames, g \in Genders :
        /\ gres' = [op |-> "resolve", inst |-> i, name |-> n, gender |-> g,
                    out |-> resolve(defaults[i], n, g)]
        /\ UNCHANGED <<defaults, touched, ncaaVars, authVars, filterVars, parserVars, extVars>>

\* resolver.register_default(sport_name, gender)
RegisterDefault ==
    \E i \in Resolvers, n \in RegisterNames, g \in RegisterGenders :
        /\ defaults' = register_default(defaults, i, n, g)
        /\ gres' = [op |-> "register", inst |-> i, name |-> n, gender |-> g,
                    out |-> "Unspecified"]
        /\ touched' = touched \cup {i}
        /\ UNCHANGED <<ncaaVars, authVars, filterVars, parserVars, extVars>>

NextGender ==
    \/ Resolve
    \/ RegisterDefault

SpecGender == InitGender /\ [][NextGender]_vars

----------------------------------------------------------------------------
(* Properties of the gender resolver *)

\* Each sport name used, with the name stripped and in lower case.
Canonical ==
    {<<<<"S", "o", "f", "t", "b", "a", "l", "l">>,
       <<"s", "o", "f", "t", "b", "a", "l", "l">>>>,
     <<<<" ", "S", "O", "F", "T", "B", "A", "L", "L", " ">>,
       <<"s", "o", "f", "t", "b", "a", "l", "l">>>>,
     <<<<"B", "a", "s", "k", "e", "t", "b", "a", "l", "l">>,
       <<"b", "a", "s", "k", "e", "t", "b", "a", "l", "l">>>>,
     <<<<"C", "r", "i", "c", "k", "e", "t">>,
       <<"c", "r", "i", "c", "k", "e", "t">>>>,
     <<<<"c", "r", "i", "c", "k", "e", "t", " ">>,
       <<"c", "r", "i", "c", "k", "e", "t">>>>,
     <<<<"F", "o", "o", "t", "b", "a", "l", "l">>,
       <<"f", "o", "o", "t", "b", "a", "l", "l">>>>}

CanonicalOf(n) == (CHOOSE p \in Canonical : p[1] = n)[2]

\* C16: resolve(sport_name, text_gender) returns text_gender when it is not
\* Unspecified, whatever the table holds; otherwise the table entry of the
\* stripped, lower-cased sport name when there is one, and Unspecified when
\* there is none.  On the built-in table Softball/Unspecified gives Women,
\* Basketball/Men gives Men and Cricket/Unspecified gives Unspecified.
C16_Resolve ==
    [][gres'.op = "resolve" =>
        LET table == defaults[gres'.inst]
            key == CanonicalOf(gres'.name)
        IN  /\ gres'.gender # "Unspecified" => gres'.out = gres'.gender
            /\ (gres'.gender = "Unspecified" /\ key \in DOMAIN table) =>
                   gres'.out = table[key]
            /\ (gres'.gender = "Unspecified" /\ key \notin DOMAIN table) =>
                   gres'.out = "Unspecified"
            /\ table = BuiltinDefaults =>
                /\ (key = CanonicalOf(<<"S", "o", "f", "t", "b", "a", "l", "l">>) /\ gres'.gender = "Unspecified") =>
                       gres'.out = "Women"
                /\ (key = CanonicalOf(<<"B", "a", "s", "k", "e", "t", "b", "a", "l", "l">>) /\ gres'.gender = "Men") =>
                       gres'.out = "Men"
                /\ (key = CanonicalOf(<<"C", "r", "i", "c", "k", "e", "t">>) /\ gres'.gender = "Unspecified") =>
                       gres'.out = "Unspecified"]_vars

\* A resolve call with a text gender that differs from the table entry of the
\* sport, the name given in upper case and with blanks around it.
C16_Witness ==
    /\ gres.op = "resolve"
    /\ gres.name # CanonicalOf(gres.name)
    /\ gres.gender \notin {"Unspecified", defaults[gres.inst][CanonicalOf(<<"S", "o", "f", "t", "b", "a", "l", "l">>)]}
    /\ CanonicalOf(gres.name) = CanonicalOf(<<"S", "o", "f", "t", "b", "a", "l", "l">>)
    /\ gres.out = gres.gender

\* C17: register_default(name, gender) on one instance changes the answer of a
\* later resolve call only on that instance, only for an Unspecified text
\* gender and only for a sport name that equals name after strip and lower;
\* there the answer becomes gender.  An instance register_default was never
\* called on answers as the built-in table does.
C17_RegisterIsLocal ==
    [][/\ gres'.op = "register" =>
            /\ \A j \in Resolvers, n \in SportNames, g \in Genders :
                resolve(defaults'[j], n, g) # resolve(defaults[j], n, g) =>
                    /\ j = gres'.inst
                    /\ g = "Unspecified"
                    /\ CanonicalOf(n) = Lower(Strip(gres'.name))
            /\ \A n \in SportNames :
                CanonicalOf(n) = Lower(Strip(gres'.name)) =>
                    resolve(defaults'[gres'.inst], n, "Unspecified") = gres'.gender
       /\ \A j \in Resolvers \ touched', n \in SportNames, g \in Genders :
            resolve(defaults'[j], n, g) = resolve(BuiltinDefaults, n, g)]_vars

\* After register_default calls on one instance only, that instance answers a
\* sport differently from the other one.
C17_Witness ==
    /\ gres.op = "register"
    /\ touched = {gres.inst}
    /\ \E j \in Resolvers \ touched, n \in SportNames :
        resolve(defaults[gres.inst], n, "Unspecified") # resolve(defaults[j], n, "Unspecified")

----------------------------------------------------------------------------
(* Operations of the sports parser *)

InitParser ==
    /\ NcaaIdle
    /\ AuthIdle
    /\ FilterIdle
    /\ GenderIdle
    /\ ExtIdle
    /\ doc \in Docs
    /\ pres = NoParse

\* parse_sports(html)
ParseSports ==
    /\ LET r == parse_sports(doc)
       IN  pres' = [op |-> "parse", ok |-> r.ok, error |-> r.error, sports |-> r.sports]
    /\ UNCHANGED <<doc, ncaaVars, authVars, filterVars, genderVars, extVars>>

NextParser ==
    \/ ParseSports

SpecParser == InitParser /\ [][NextParser]_vars

----------------------------------------------------------------------------
(* Properties of the sports parser *)

\* For each tag text used: the canonical sport name and the resolved gender.
Expected ==
    {<<<<"S", "o", "c", "c", "e", "r", " ", "-", " ", "M", "e", "n">>,
       <<"S", "o", "c", "c", "e", "r">>, "Men">>,
     <<<<"S", "o", "c", "c", "e", "r", " ", "-", " ", "W", "o", "m", "e", "n">>,
       <<"S", "o", "c", "c", "e", "r">>, "Women">>,
     <<<<" ", "S", "o", "c", "c", "e", "r", " ", "-", " ", "W", "O", "M", "E", "N", " ">>,
       <<"S", "o", "c", "c", "e", "r">>, "Women">>,
     <<<<"S", "o", "c", "c", "e", "r">>,
       <<"S", "o", "c", "c", "e", "r">>, "Unspecified">>,
     <<<<"F", "o", "o", "t", "b", "a", "l", "l">>,
       <<"F", "o", "o", "t", "b", "a", "l", "l">>, "Men">>,
     <<<<"R", "i", "f", "l", "e">>,
       <<"R", "i", "f", "l", "e">>, "Coed">>}

HasText(tag) == \E e \in Expected : e[1] = tag.text
NameOf(tag) == (CHOOSE e \in Expected : e[1] = tag.text)[2]
GenderOf(tag) == (CHOOSE e \in Expected : e[1] = tag.text)[3]
UrlOfTag(tag) == IF tag.href = <<>> THEN <<>> ELSE <<NCAA_BASE_URL>> \o tag.href
RecordOf(tag) ==
    [name |-> NameOf(tag), season |-> "Fall", gender |-> GenderOf(tag), url |-> UrlOfTag(tag)]

Count(seq, x) == Cardinality({k \in 1..Len(seq) : seq[k] = x})

\* the tags of the one block of a document of EntryDocs that have a text
TagsOf(html) == SelectSeq(html.blocks[1].tags, HasText)

\* a tag stays: it is not Unspecified, or no tag of its name is Men or Women
Survives(tag, tags) ==
    \/ GenderOf(tag) # "Unspecified"
    \/ \A k \in 1..Len(tags) :
           NameOf(tags[k]) = NameOf(tag) => GenderOf(tags[k]) \notin {"Men", "Women"}

C19_NameAndGender ==
    (pres.op = "parse" /\ doc \in EntryDocs) =>
        LET tags == TagsOf(doc)
            texts == [k \in 1..Len(tags) |-> tags[k].text]
        IN  /\ \A k \in 1..Len(pres.sports) :
                \E j \in 1..Len(tags) : pres.sports[k] = RecordOf(tags[j])
            /\ texts \in {<<<<"S", "o", "c", "c", "e", "r", " ", "-", " ", "M", "e", "n">>, <<"S", "o", "c", "c", "e", "r", " ", "-", " ", "W", "o", "m", "e", "n">>>>, <<<<"S", "o", "c", "c", "e", "r", " ", "-", " ", "W", "o", "m", "e", "n">>, <<"S", "o", "c", "c", "e", "r", " ", "-", " ", "M", "e", "n">>>>} =>
                /\ Len(pres.sports) = 2
                /\ {pres.sports[k].name : k \in 1..2} = {<<"S", "o", "c", "c", "e", "r">>}
                /\ {pres.sports[k].gender : k \in 1..2} = {"Men", "Women"}
            /\ texts = <<<<"F", "o", "o", "t", "b", "a", "l", "l">>>> =>
                /\ Len(pres.sports) = 1
                /\ pres.sports[1].name = <<"F", "o", "o", "t", "b", "a", "l", "l">>
                /\ pres.sports[1].gender = "Men"

\* The block of "Soccer - Men" and a "Soccer - WOMEN" with blanks around it
\* has been parsed into two records named Soccer.
C19_Witness ==
    /\ pres.op = "parse"
    /\ doc \in EntryDocs
    /\ Len(pres.sports) = 2
    /\ \E k \in 1..Len(doc.blocks[1].tags) :
           doc.blocks[1].tags[k].text # Strip(doc.blocks[1].tags[k].text)
    /\ pres.sports[1].name = <<"S", "o", "c", "c", "e", "r">>
    /\ pres.sports[2].name = <<"S", "o", "c", "c", "e", "r">>
    /\ pres.sports[1].gender = "Men"
    /\ pres.sports[2].gender = "Women"

\* The season a header text names, written out; "none": no season is named.
SeasonOfHeader ==
    {<<<<"F", "a", "l", "l", " ", " ", "S", "p", "o", "r", "t", "s">>, "Fall">>,
     <<<<"W", "I", "N", "T", "E", "R">>, "Winter">>,
     <<<<"s", "p", "r", "i", "n", "g", " ", "s", "e", "a", "s", "o", "n">>, "Spring">>,
     <<<<"S", "u", "m", "m", "e", "r">>, "none">>}

\* the header is there, has a text, and the text names none of the seasons
Unrecognized(block) ==
    /\ block.header.present
    /\ \E e \in SeasonOfHeader : e[1] = block.header.text /\ e[2] = "none"

\* C20: parse_sports raises, and returns no record, exactly when the
\* .sports-nav container is absent or some season block has a label that
\* names none of fall, winter and spring, wherever that block is; the other
\* blocks' records are not returned then.  (A block whose header is absent
\* or blank has no label: it is passed over.)
C20_FatalErrors ==
    (pres.op = "parse" /\ doc \in SeasonDocs) =>
        /\ pres.ok <=>
               /\ doc.nav
               /\ \A k \in 1..Len(doc.blocks) : ~Unrecognized(doc.blocks[k])
        /\ ~pres.ok => (pres.error = "ValueError" /\ pres.sports = <<>>)
        /\ pres.ok =>
               Len(pres.sports) =
                   Cardinality({k \in 1..Len(doc.blocks) :
                       \E e \in SeasonOfHeader :
                           e[1] = doc.blocks[k].header.text /\ e[2] # "none"
                               /\ doc.blocks[k].header.present})

\* The container is there, a block of a recognized season comes first and a
\* block with an unrecognized label after it: the parse has raised.
C20_Witness ==
    /\ pres.op = "parse"
    /\ doc \in SeasonDocs
    /\ doc.nav
    /\ Len(doc.blocks) = 2
    /\ ~Unrecognized(doc.blocks[1])
    /\ doc.blocks[1].header.present
    /\ doc.blocks[1].header.text = <<"F", "a", "l", "l", " ", " ", "S", "p", "o", "r", "t", "s">>
    /\ Unrecognized(doc.blocks[2])
    /\ ~pres.ok

----------------------------------------------------------------------------
(* Operations on a BasketballService whose client is the decorator chain *)

ServiceGetGamesByFilter ==
    \E p \in ScoreboardArgs, f \in {CompletedGameFilter, ScheduledGameFilter},
       http \in HttpOutcomes, d \in Latencies :
        /\ now + d <= MaxTime
        /\ LET r == Service_get_games_by_filter(p[1], p[2], f, cache, ttl, today,
                                                now, now + d, http)
           IN  /\ cache' = r.cache
               /\ last' = [op |-> "get_games_by_filter", req |-> r.req, days |-> 0,
                           n |-> 0, result |-> r.result, calls |-> r.calls,
                           http |-> r.http]
        /\ now' = now + d
        /\ UNCHANGED <<ttl, today, clientLast, authVars, libVars>>

\* get_live_games: get_games_by_filter(gender, division, LiveGameFilter())
ServiceGetLiveGames ==
    \E p \in ScoreboardArgs, http \in HttpOutcomes, d \in Latencies :
        /\ now + d <= MaxTime
        /\ LET r == Service_get_games_by_filter(p[1], p[2], LiveGameFilter, cache, ttl,
                                                today, now, now + d, http)
           IN  /\ cache' = r.cache
               /\ last' = [op |-> "get_live_games", req |-> r.req, days |-> 0,
                           n |-> 0, result |-> r.result, calls |-> r.calls,
                           http |-> r.http]
        /\ now' = now + d
        /\ UNCHANGED <<ttl, today, clientLast, authVars, libVars>>

ServiceGetUpcomingGames ==
    \E p \in ScoreboardArgs, days \in 0..MaxDays :
      \E outs \in [1..days -> {"ok", "network_error", "invalid_body"}] :
        /\ LET r == Service_get_upcoming_games(p[1], p[2], days, cache,
                                               [k \in 1..(days + 1) |-> today], outs)
           IN  /\ cache' = r.cache
               /\ last' = [op |-> "get_upcoming_games", req |-> r.req, days |-> days,
                           n |-> 0, result |-> r.result, calls |-> r.calls,
                           http |-> r.http]
        /\ UNCHANGED <<ttl, now, today, clientLast, authVars, libVars>>

\* the calendar day changes between two calls
ServiceMidnight ==
    /\ today < MaxDay
    /\ today' = today + 1
    /\ last' = [NoOp EXCEPT !.op = "midnight"]
    /\ UNCHANGED <<cache, ttl, now, clientLast, authVars, libVars>>

NextService ==
    \/ ServiceGetGamesByFilter
    \/ ServiceGetLiveGames
    \/ Tick
    \/ ServiceMidnight

SpecService == InitCache /\ [][NextService]_vars

NextUpcoming ==
    \/ ServiceGetUpcomingGames
    \/ ServiceMidnight

SpecUpcoming == InitCache /\ [][NextUpcoming]_vars

----------------------------------------------------------------------------
(* Properties of the BasketballService *)

\* the number of games of the first k schedules
GamesBefore(schedules, k) ==
    SumOver(1..k, [m \in 1..k |-> Len(GamesOf(schedules[m]))])

\* C22: a get_upcoming_games call that returns gives the games of the
\* schedules fetched, schedule after schedule and in each schedule's order:
\* game j of schedule k is at place (games of schedules 1..k-1) + j, a game
\* that is in two schedules is there twice, and the length is the sum of the
\* schedules' game counts.
C22_Concatenation ==
    (last.op = "get_upcoming_games" /\ last.result.ok) =>
        LET schedules == OkBodies(last.http)
            out == last.result.value.body
        IN  /\ Len(out) = GamesBefore(schedules, Len(schedules))
            /\ \A k \in 1..Len(schedules) :
                   \A j \in 1..Len(GamesOf(schedules[k])) :
                       out[GamesBefore(schedules, k - 1) + j] = GamesOf(schedules[k])[j]

\* Three days were asked for, the second failed; the two schedules fetched
\* share a game and the result holds it each time it occurs, unsorted.
C22_Witness ==
    /\ last.op = "get_upcoming_games"
    /\ last.result.ok
    /\ last.days = 3
    /\ Len(OkBodies(last.http)) = 2
    /\ Len(last.result.value.body) = 2
    /\ last.result.value.body[1].gameState = "in"
    /\ last.result.value.body[2].gameState = "final"

ServiceFilterOps == {"get_live_games", "get_games_by_filter"}

\* C27: get_live_games and get_games_by_filter ask the client for the
\* scoreboard of today's date through get_scoreboard: a caching layer that
\* holds a fresh entry under the key of (gender, division, today) answers and
\* the wrapped client is not called; otherwise the wrapped client is called
\* and a value it returns is stored under that key.  So when one such call
\* has returned, the next one for the same gender and division on the same
\* date, made while the entry is younger than the TTL, makes no HTTP request.
C27_TodayThroughCache ==
    [][/\ last'.op \in ServiceFilterOps =>
            /\ last'.req.date = get_today_date_string(today)
            /\ \A i \in CacheLayers :
                LET key == KeyOf(last'.req)
                IN  /\ last'.calls[i] = 1
                    /\ IF key \in DOMAIN cache[i] /\ now - cache[i][key].timestamp < ttl[i]
                       THEN /\ last'.calls[i + 1] = 0
                            /\ last'.http = <<>>
                            /\ last'.result.ok
                            /\ cache' = cache
                       ELSE /\ last'.calls[i + 1] = 1
                            /\ last'.result.ok =>
                                   /\ key \in DOMAIN cache'[i]
                                   /\ cache'[i][key].timestamp = now'
       /\ (/\ last.op \in ServiceFilterOps
           /\ last.result.ok
           /\ last'.op \in ServiceFilterOps
           /\ last'.req = last.req
           /\ \A i \in CacheLayers :
                  /\ KeyOf(last.req) \in DOMAIN cache[i]
                  /\ now - cache[i][KeyOf(last.req)].timestamp < ttl[i]) =>
                /\ last'.http = <<>>
                /\ last'.calls[Base] = 0
                /\ last'.result.ok]_vars

\* get_live_games has been answered from an entry stored at an earlier time.
C27_Witness ==
    \E i \in CacheLayers :
        /\ last.op = "get_live_games"
        /\ last.calls[i] = 1
        /\ last.calls[i + 1] = 0
        /\ last.result.ok
        /\ KeyOf(last.req) \in DOMAIN cache[i]
        /\ cache[i][KeyOf(last.req)].timestamp < now

----------------------------------------------------------------------------
(* ScheduleQueryBuilder and ScoreboardQueryBuilder (builders.py)           *)

(* Python's None: a value that no string equals. *)
None == <<"<None>">>

(* not x, for x a string or None *)
Falsy(x) == x = None \/ x = <<>>

DEFAULT_DIVISION == <<"d1">>

ValueError(cause) == [kind |-> "ValueError", url |-> <<>>, cause |-> cause]

ScheduleQueryBuilder_init ==
    [kind |-> "schedule", sport |-> None, gender |-> None,
     division |-> DEFAULT_DIVISION, date |-> None, days |-> 1]

ScoreboardQueryBuilder_init ==
    [kind |-> "scoreboard", gender |-> None, division |-> DEFAULT_DIVISION,
     date |-> None]

for_days(b, days) ==
    IF days < 1
    THEN [obj |-> b, result |-> Raise(ValueError("days_below_one"))]
    ELSE [obj |-> [b EXCEPT !.days = days], result |-> Ok(NoValue)]

ClientCall(method, args, days) == [method |-> method, args |-> args, days |-> days]

\* Variant: the sport is looked at only on the single-day path.
Schedule_execute_late(b, dayAt, outs) ==
    IF b.days > 1
    THEN LET r == Client_get_upcoming_schedules(b.sport, b.division, b.days, dayAt, outs)
         IN  [result |-> UpcomingResult(r), http |-> r.http,
              client |-> <<ClientCall("get_upcoming_schedules",
                                      <<b.sport, b.division>>, b.days)>>]
    ELSE IF Falsy(b.sport)
    THEN [result |-> Raise(ValueError("sport_required")), http |-> <<>>, client |-> <<>>]
    ELSE LET date == IF Falsy(b.date) THEN get_today_date_string(dayAt[1]) ELSE b.date
             r == Client_get("schedule", b.sport, b.division, date, outs[1])
         IN  [result |-> IF r.result.ok THEN Ok(<<r.result.value>>) ELSE r.result,
              http |-> r.http,
              client |-> <<ClientCall("get_schedule", <<b.sport, b.division, date>>, 0)>>]

(* ScheduleQueryBuilder.execute().  client lists the calls made on the     *)
(* client, http the GETs those calls made.  dayAt and outs as in            *)
(* Client_get_upcoming_schedules; the single-day path uses their first      *)
(* element.                                                                 *)
Schedule_execute(b, dayAt, outs) ==
    IF Falsy(b.sport)
    THEN [result |-> Raise(ValueError("sport_required")), http |-> <<>>, client |-> <<>>]
    ELSE IF b.days > 1
    THEN LET r == Client_get_upcoming_schedules(b.sport, b.division, b.days, dayAt, outs)
         IN  [result |-> UpcomingResult(r), http |-> r.http,
              client |-> <<ClientCall("get_upcoming_schedules",
                                      <<b.sport, b.division>>, b.days)>>]
    ELSE LET date == IF Falsy(b.date) THEN get_today_date_string(dayAt[1]) ELSE b.date
             r == Client_get("schedule", b.sport, b.division, date, outs[1])
         IN  [result |-> IF r.result.ok THEN Ok(<<r.result.value>>) ELSE r.result,
              http |-> r.http,
              client |-> <<ClientCall("get_schedule", <<b.sport, b.division, date>>, 0)>>]

(* ScoreboardQueryBuilder.execute() *)
Scoreboard_execute(b, day, http) ==
    IF Falsy(b.gender)
    THEN [result |-> Raise(ValueError("gender_required")), http |-> <<>>, client |-> <<>>]
    ELSE IF ~Falsy(b.date)
    THEN LET r == Client_get("scoreboard", b.gender, b.division, b.date, http)
         IN  [result |-> r.result, http |-> r.http,
              client |-> <<ClientCall("get_scoreboard",
                                      <<b.gender, b.division, b.date>>, 0)>>]
    ELSE LET r == Client_get_todays("scoreboard", b.gender, b.division, day, http)
         IN  [result |-> r.result, http |-> r.http,
              client |-> <<ClientCall("get_todays_scoreboard",
                                      <<b.gender, b.division>>, 0)>>]

----------------------------------------------------------------------------
(* Operations on one query builder *)

InitBuilders ==
    /\ NcaaIdle
    /\ AuthIdle
    /\ FilterIdle
    /\ GenderIdle
    /\ ParserIdle
    /\ builder = NoBuilder
    /\ RoundTripIdle
    /\ LimiterIdle
    /\ ObserverIdle

BuilderUnchanged == UNCHANGED <<ncaaVars, authVars, filterVars, genderVars, parserVars,
                               rt, limiter, obs>>

BuilderSports == {<<>>, <<"basketball-men">>}
BuilderGenders == {<<>>, <<"men">>}
BuilderDivisions == {<<"d2">>}
BuilderDates == {<<>>} \cup Dates
BuilderOutcomes == {"ok", "network_error", "invalid_body"}

Called(op, days, r) ==
    [op |-> op, days |-> days, result |-> r.result, client |-> r.client, http |-> r.http]

Returned(op) == [NoBuilderCall EXCEPT !.op = op]

NewScheduleQueryBuilder ==
    /\ builder' = [obj |-> ScheduleQueryBuilder_init, last |-> Returned("new")]
    /\ BuilderUnchanged

NewScoreboardQueryBuilder ==
    /\ builder' = [obj |-> ScoreboardQueryBuilder_init, last |-> Returned("new")]
    /\ BuilderUnchanged

ForSport ==
    \E sport \in BuilderSports :
        /\ builder.obj.kind = "schedule"
        /\ builder' = [obj |-> [builder.obj EXCEPT !.sport = sport],
                       last |-> Returned("for_sport")]
        /\ BuilderUnchanged

ForGender ==
    \E gender \in BuilderGenders :
        /\ builder.obj.kind \in {"schedule", "scoreboard"}
        /\ builder' = [obj |-> [builder.obj EXCEPT !.gender = gender],
                       last |-> Returned("for_gender")]
        /\ BuilderUnchanged

InDivision ==
    \E division \in BuilderDivisions :
        /\ builder.obj.kind \in {"schedule", "scoreboard"}
        /\ builder' = [obj |-> [builder.obj EXCEPT !.division = division],
                       last |-> Returned("in_division")]
        /\ BuilderUnchanged

OnDate ==
    \E date \in BuilderDates :
        /\ builder.obj.kind \in {"schedule", "scoreboard"}
        /\ builder' = [obj |-> [builder.obj EXCEPT !.date = date],
                       last |-> Returned("on_date")]
        /\ BuilderUnchanged

ForDays ==
    \E days \in (0 - 1)..MaxDays :
        /\ builder.obj.kind = "schedule"
        /\ LET r == for_days(builder.obj, days)
           IN  builder' = [obj |-> r.obj,
                           last |-> [NoBuilderCall EXCEPT !.op = "for_days",
                                                          !.days = days,
                                                          !.result = r.result]]
        /\ BuilderUnchanged

ScheduleExecute ==
    \E outs \in [1..(IF builder.obj.kind = "schedule" THEN builder.obj.days ELSE 1)
                    -> BuilderOutcomes] :
        /\ builder.obj.kind = "schedule"
        /\ LET dayAt == [k \in DOMAIN outs |-> today]
           IN  builder' = [builder EXCEPT
                   !.last = Called("execute", builder.obj.days,
                                   Schedule_execute(builder.obj, dayAt, outs))]
        /\ BuilderUnchanged

ScoreboardExecute ==
    \E http \in HttpOutcomes :
        /\ builder.obj.kind = "scoreboard"
        /\ builder' = [builder EXCEPT
               !.last = Called("execute", 1, Scoreboard_execute(builder.obj, today, http))]
        /\ BuilderUnchanged

NextBuilders ==
    \/ NewScheduleQueryBuilder
    \/ NewScoreboardQueryBuilder
    \/ ForSport
    \/ ForGender
    \/ InDivision
    \/ OnDate
    \/ ForDays
    \/ ScheduleExecute
    \/ ScoreboardExecute

SpecBuilders == InitBuilders /\ [][NextBuilders]_vars

----------------------------------------------------------------------------
(* Properties of the query builders *)

NoClientIO(call) == call.client = <<>> /\ call.http = <<>>

RaisedValueError(call, cause) ==
    /\ ~call.result.ok
    /\ call.result.error = ValueError(cause)

(* C21: execute() of a ScheduleQueryBuilder whose sport is unset, and of a *)
(* ScoreboardQueryBuilder whose gender is unset, raises its configuration   *)
(* error without having called the client; for_days(days) with days < 1     *)
(* raises from that call; neither makes a client call or an HTTP request.   *)
C21_ConfigurationErrors ==
    [][ /\ (/\ builder'.last.op = "execute"
            /\ builder'.obj.kind = "schedule"
            /\ Falsy(builder'.obj.sport)) =>
               /\ RaisedValueError(builder'.last, "sport_required")
               /\ NoClientIO(builder'.last)
        /\ (/\ builder'.last.op = "execute"
            /\ builder'.obj.kind = "scoreboard"
            /\ Falsy(builder'.obj.gender)) =>
               /\ RaisedValueError(builder'.last, "gender_required")
               /\ NoClientIO(builder'.last)
        /\ (builder'.last.op = "for_days" /\ builder'.last.days < 1) =>
               /\ RaisedValueError(builder'.last, "days_below_one")
               /\ NoClientIO(builder'.last)
      ]_vars

(* a schedule builder set up for several days but without a sport has been *)
(* executed                                                                 *)
C21_Witness ==
    /\ builder.obj.kind = "schedule"
    /\ builder.obj.sport = None
    /\ builder.obj.days > 1
    /\ builder.obj.division # DEFAULT_DIVISION
    /\ builder.last.op = "execute"
    /\ ~builder.last.result.ok

----------------------------------------------------------------------------
(* The pydantic models of api/models.py: validation and model_dump         *)
(*                                                                          *)
(* Python values carry their type: None, int, str, bool, enum member, list, *)
(* dict and model instance.  An instance holds its field values and         *)
(* model_fields_set, the names of the fields its input gave.  Of each       *)
(* model the fields kept are one of every kind the module declares:         *)
(* required str and int, enum, optional with default None, int with a       *)
(* default, list with default [], required and optional nested model.       *)

PyNone == [t |-> "none"]
PyInt(n) == [t |-> "int", n |-> n]
PyStr(s) == [t |-> "str", s |-> s]
PyBool(b) == [t |-> "bool", b |-> b]
PyEnum(cls, s) == [t |-> "enum", cls |-> cls, s |-> s]
PyList(items) == [t |-> "list", items |-> items]
PyDict(d) == [t |-> "dict", d |-> d]
PyModel(cls, d, fields_set) == [t |-> "model", cls |-> cls, d |-> d, fields_set |-> fields_set]

TInt == [k |-> "int"]
TStr == [k |-> "str"]
TBool == [k |-> "bool"]
TEnum(cls) == [k |-> "enum", cls |-> cls]
TOptional(T) == [k |-> "optional", of |-> T]
TList(T) == [k |-> "list", of |-> T]
TModel(cls) == [k |-> "model", cls |-> cls]

Required(T) == [type |-> T, required |-> TRUE, default |-> PyNone]
Default(T, v) == [type |-> T, required |-> FALSE, default |-> v]

EnumValues(cls) ==
    IF cls = "GameState"
    THEN {"pre", "in", "post", "scheduled", "inprogress", "final", "postponed", "cancelled"}
    ELSE {"available", "unavailable", "archived"}

Schema(cls) ==
    CASE cls = "ScoreboardResponse" ->
            [games |-> Default(TList(TModel("GameWrapper")), PyList(<<>>))]
      [] cls = "GameWrapper" ->
            [game |-> Required(TModel("Game"))]
      [] cls = "Game" ->
            [gameID |-> Default(TOptional(TStr), PyNone),
             url |-> Required(TStr),
             startTimeEpoch |-> Required(TInt),
             gameState |-> Required(TEnum("GameState")),
             videoState |-> Default(TOptional(TEnum("VideoState")), PyNone),
             currentPeriod |-> Default(TInt, PyInt(0)),
             weather |-> Default(TOptional(TModel("Weather")), PyNone),
             home |-> Required(TModel("Team"))]
      [] cls = "Team" ->
            [score |-> Required(TInt),
             winner |-> Default(TOptional(TBool), PyNone),
             conferences |-> Default(TList(TModel("Conference")), PyList(<<>>))]
      [] cls = "Conference" ->
            [conferenceName |-> Required(TStr),
             conferenceSeo |-> Default(TOptional(TStr), PyNone)]
      [] cls = "Weather" ->
            [temperature |-> Default(TOptional(TStr), PyNone)]

(* int(s) for the numeric strings the documents use *)
IntOfStr == [s \in {"7", "65"} |-> IF s = "7" THEN 7 ELSE 65]

Valid(v) == [ok |-> TRUE, v |-> v]
Invalid == [ok |-> FALSE, v |-> PyNone]

(* Validation of x against the annotation T, in pydantic's default (lax)   *)
(* mode: an int field takes a numeric string, an enum field the value of a *)
(* member or the member, an instance of the model is taken as it is, keys  *)
(* that name no field are ignored, an absent field gets its default.        *)
RECURSIVE validate(_, _)
validate(T, x) ==
    CASE T.k = "int" ->
            IF x.t = "int" THEN Valid(x)
            ELSE IF x.t = "str" /\ x.s \in DOMAIN IntOfStr THEN Valid(PyInt(IntOfStr[x.s]))
            ELSE Invalid
      [] T.k = "str" -> IF x.t = "str" THEN Valid(x) ELSE Invalid
      [] T.k = "bool" -> IF x.t = "bool" THEN Valid(x) ELSE Invalid
      [] T.k = "enum" ->
            IF x.t = "enum" /\ x.cls = T.cls THEN Valid(x)
            ELSE IF x.t = "str" /\ x.s \in EnumValues(T.cls) THEN Valid(PyEnum(T.cls, x.s))
            ELSE Invalid
      [] T.k = "optional" -> IF x.t = "none" THEN Valid(PyNone) ELSE validate(T.of, x)
      [] T.k = "list" ->
            IF x.t # "list" THEN Invalid
            ELSE LET rs == [i \in DOMAIN x.items |-> validate(T.of, x.items[i])]
                 IN  IF \A i \in DOMAIN rs : rs[i].ok
                     THEN Valid(PyList([i \in DOMAIN rs |-> rs[i].v]))
                     ELSE Invalid
      [] T.k = "model" ->
            IF x.t = "model" /\ x.cls = T.cls THEN Valid(x)
            ELSE IF x.t # "dict" THEN Invalid
            ELSE LET fields == Schema(T.cls)
                     given == DOMAIN x.d \cap DOMAIN fields
                     rs == [n \in given |-> validate(fields[n].type, x.d[n])]
                 IN  IF \/ \E n \in DOMAIN fields : fields[n].required /\ n \notin given
                        \/ \E n \in given : ~rs[n].ok
                     THEN Invalid
                     ELSE Valid(PyModel(T.cls,
                                        [n \in DOMAIN fields |->
                                            IF n \in given THEN rs[n].v
                                            ELSE fields[n].default],
                                        given))

\* Variant: model_dump(exclude_defaults=True), fields at their default are left out.
RECURSIVE dump_exclude_defaults(_)
dump_exclude_defaults(x) ==
    CASE x.t = "model" ->
            LET fields == Schema(x.cls)
                kept == {n \in DOMAIN x.d : fields[n].required \/ x.d[n] # fields[n].default}
            IN  PyDict([n \in kept |-> dump_exclude_defaults(x.d[n])])
      [] x.t = "list" -> PyList([i \in DOMAIN x.items |-> dump_exclude_defaults(x.items[i])])
      [] OTHER -> x

(* model_dump(): every field, nested instances as dicts, lists copied,     *)
(* enum members kept.                                                       *)
RECURSIVE dump(_)
dump(x) ==
    CASE x.t = "model" -> PyDict([n \in DOMAIN x.d |-> dump(x.d[n])])
      [] x.t = "list" -> PyList([i \in DOMAIN x.items |-> dump(x.items[i])])
      [] OTHER -> x

(* The field values of an instance, those of nested instances included:    *)
(* what BaseModel.__eq__ compares besides the class.                        *)
RECURSIVE FieldValues(_)
FieldValues(x) ==
    CASE x.t = "model" -> [t |-> "model", cls |-> x.cls,
                           d |-> [n \in DOMAIN x.d |-> FieldValues(x.d[n])]]
      [] x.t = "list" -> PyList([i \in DOMAIN x.items |-> FieldValues(x.items[i])])
      [] OTHER -> x

ModelEq(a, b) == FieldValues(a) = FieldValues(b)

(* CachedCasablancaClient.get_scoreboard on the map c, the wrapped client  *)
(* answering with the ScoreboardResponse built from the JSON document body. *)
(* calls counts the calls on the wrapped client.                            *)
Cached_get_scoreboard(c, cache_key, duration, t, body) ==
    LET cached == _get_cached(c, cache_key, duration, t)
    IN  IF cached.found /\ Truthy(cached.data.d)
        THEN [cache |-> cached.cache, calls |-> 0,
              result |-> validate(TModel("ScoreboardResponse"), cached.data)]
        ELSE LET result == validate(TModel("ScoreboardResponse"), body)
             IN  IF result.ok
                 THEN [cache |-> _set_cache(cached.cache, cache_key, dump(result.v), t),
                       calls |-> 1, result |-> result]
                 ELSE [cache |-> cached.cache, calls |-> 1, result |-> result]

----------------------------------------------------------------------------
(* Two get_scoreboard calls with one key on a CachedCasablancaClient       *)

TeamDocs ==
    {PyDict([score |-> PyInt(7)]),
     PyDict([score |-> PyStr("65"), winner |-> PyBool(TRUE),
             conferences |-> PyList(<<PyDict([conferenceName |-> PyStr("ACC")]),
                                      PyDict([conferenceName |-> PyStr("Ivy"),
                                              conferenceSeo |-> PyStr("ivy")])>>)]),
     PyDict([score |-> PyInt(0), winner |-> PyNone, conferences |-> PyList(<<>>)])}

GameDocs ==
    {PyDict([game |-> PyDict([url |-> PyStr("/game/1"), startTimeEpoch |-> PyInt(7),
                              gameState |-> PyStr("final"), home |-> h])]) : h \in TeamDocs}
    \cup
    {PyDict([game |-> PyDict([gameID |-> PyStr("2"), url |-> PyStr("/game/2"),
                              startTimeEpoch |-> PyStr("65"), gameState |-> PyStr("in"),
                              videoState |-> PyStr("archived"), currentPeriod |-> PyInt(2),
                              weather |-> PyDict([temperature |-> PyStr("65")]),
                              bracket |-> PyStr("east"),
                              home |-> PyDict([score |-> PyInt(7)])])]),
     PyDict([game |-> PyDict([gameID |-> PyNone, url |-> PyStr("/game/3"),
                              startTimeEpoch |-> PyInt(0), gameState |-> PyStr("pre"),
                              videoState |-> PyNone, currentPeriod |-> PyInt(0),
                              weather |-> PyNone,
                              home |-> PyDict([score |-> PyInt(0)])])]),
     PyDict([game |-> PyDict([url |-> PyStr("/game/4"), startTimeEpoch |-> PyInt(7),
                              gameState |-> PyStr("halftime"),
                              home |-> PyDict([score |-> PyInt(7)])])]),
     PyDict([game |-> PyDict([startTimeEpoch |-> PyInt(7), gameState |-> PyStr("final"),
                              home |-> PyDict([score |-> PyInt(7)])])])}

ListsUpTo(S, n) == UNION {[1..k -> S] : k \in 0..n}

(* The JSON documents the server answers with; the last has no "games". *)
Bodies ==
    {PyDict([games |-> PyList(g)]) : g \in ListsUpTo(GameDocs, MaxGames)}
    \cup {PyDict([updated_at |-> PyStr("now")])}

RoundTripKey == _get_cache_key("scoreboard", <<<<"men">>, <<"d1">>, <<DateStr[1]>>>>)

InitRoundTrip ==
    /\ NcaaIdle
    /\ AuthIdle
    /\ FilterIdle
    /\ GenderIdle
    /\ ParserIdle
    /\ BuilderIdle
    /\ rt = NoRoundTrip
    /\ LimiterIdle
    /\ ObserverIdle

RoundTripUnchanged == UNCHANGED <<ncaaVars, authVars, filterVars, genderVars, parserVars,
                                 builder, limiter, obs>>

(* the first get_scoreboard of a new CachedCasablancaClient; body is the   *)
(* document the server answers with, original what the call returned        *)
FirstGetScoreboard ==
    \E body \in Bodies :
        /\ rt.op = "none"
        /\ LET r == Cached_get_scoreboard(EmptyCache, RoundTripKey, MaxTTL, now, body)
           IN  rt' = [op |-> "first", body |-> body, original |-> r.result,
                      cache |-> r.cache,
                      result |-> r.result, calls |-> r.calls]
        /\ RoundTripUnchanged

(* What the server answers with by the time of the second call. *)
LaterBodies ==
    {PyDict([games |-> PyList(<<>>)]),
     PyDict([games |-> PyList(<<PyDict([game |->
                 PyDict([url |-> PyStr("/game/5"), startTimeEpoch |-> PyInt(7),
                         gameState |-> PyStr("post"),
                         home |-> PyDict([score |-> PyInt(65)])])])>>)])}

(* get_scoreboard again, same arguments, before the clock has moved; the   *)
(* server would now answer with body.                                       *)
SecondGetScoreboard ==
    \E body \in LaterBodies :
        /\ rt.op = "first"
        /\ LET r == Cached_get_scoreboard(rt.cache, RoundTripKey, MaxTTL, now, body)
           IN  rt' = [op |-> "second", body |-> rt.body, original |-> rt.original,
                      cache |-> r.cache,
                      result |-> r.result, calls |-> r.calls]
        /\ RoundTripUnchanged

NextRoundTrip ==
    \/ FirstGetScoreboard
    \/ SecondGetScoreboard

SpecRoundTrip == InitRoundTrip /\ [][NextRoundTrip]_vars

(* C23: a response that get_scoreboard returned and cached comes back from *)
(* the cache equal to it: the second call returns an instance with the same *)
(* class and field values as the one the wrapped client returned, and the   *)
(* two dump to the same dict.                                               *)
C23_RoundTrip ==
    (rt.op = "second" /\ rt.original.ok) =>
        /\ rt.result.ok
        /\ ModelEq(rt.result.v, rt.original.v)
        /\ dump(rt.result.v) = dump(rt.original.v)
        /\ rt.cache[RoundTripKey].data = dump(rt.original.v)

(* a response with two games came back from the cache; the instance built  *)
(* from the cached dict has every field set, the original had not           *)
C23_Witness ==
    /\ rt.op = "second"
    /\ rt.original.ok
    /\ rt.calls = 0
    /\ Len(rt.original.v.d.games.items) = 2
    /\ rt.result.v # rt.original.v
    /\ \E i \in 1..2 :
          rt.original.v.d.games.items[i].d.game.d.startTimeEpoch = PyInt(65)

----------------------------------------------------------------------------
(* RateLimiter (fastapi_oauth_example/infrastructure/security)             *)
(* Times are seconds; the clock is read at multiples of half a minute.      *)

\* the largest requests_per_minute a limiter is built with
MaxRequests == 2

Minute == 60
HTTP_429_TOO_MANY_REQUESTS == 429

Identifiers == {"alice", "bob"}

RequestsOf(requests, identifier) ==
    IF identifier \in DOMAIN requests THEN requests[identifier] ELSE <<>>

Put(requests, identifier, times) ==
    [k \in DOMAIN requests \cup {identifier} |->
        IF k = identifier THEN times ELSE requests[k]]

\* Variant: the call that reaches the limit is still let through.
check_rate_limit_over(requests, requests_per_minute, identifier, utc) ==
    LET cutoff == utc - Minute
        recent == SelectSeq(RequestsOf(requests, identifier),
                            LAMBDA req_time : req_time > cutoff)
    IN  IF Len(recent) > requests_per_minute
        THEN [requests |-> Put(requests, identifier, recent),
              status_code |-> HTTP_429_TOO_MANY_REQUESTS]
        ELSE [requests |-> Put(requests, identifier, Append(recent, utc)),
              status_code |-> 0]

(* check_rate_limit(request, identifier) at the time utc.  status_code is  *)
(* that of the HTTPException raised, 0 when the call returns.               *)
check_rate_limit(requests, requests_per_minute, identifier, utc) ==
    LET cutoff == utc - Minute
        recent == SelectSeq(RequestsOf(requests, identifier),
                            LAMBDA req_time : req_time > cutoff)
    IN  IF Len(recent) >= requests_per_minute
        THEN [requests |-> Put(requests, identifier, recent),
              status_code |-> HTTP_429_TOO_MANY_REQUESTS]
        ELSE [requests |-> Put(requests, identifier, Append(recent, utc)),
              status_code |-> 0]

----------------------------------------------------------------------------
(* Operations on one RateLimiter.  admitted keeps, for each identifier, the *)
(* times of all the calls that returned.                                     *)

InitLimiter ==
    /\ NcaaIdle
    /\ AuthIdle
    /\ FilterIdle
    /\ GenderIdle
    /\ ParserIdle
    /\ BuilderIdle
    /\ RoundTripIdle
    /\ ObserverIdle
    /\ \E n \in 1..MaxRequests :
          limiter = [requests_per_minute |-> n, requests |-> <<>>,
                     admitted |-> [i \in Identifiers |-> <<>>], utcnow |-> 0,
                     last |-> NoLimiterCall]

LimiterUnchanged == UNCHANGED <<ncaaVars, authVars, filterVars, genderVars, parserVars,
                               builder, rt, obs>>

CheckRateLimit ==
    \E identifier \in Identifiers :
        /\ LET r == check_rate_limit(limiter.requests, limiter.requests_per_minute,
                                     identifier, limiter.utcnow)
           IN  limiter' = [limiter EXCEPT
                   !.requests = r.requests,
                   !.admitted[identifier] =
                       IF r.status_code = 0 THEN Append(@, limiter.utcnow) ELSE @,
                   !.last = [op |-> "check_rate_limit", identifier |-> identifier,
                             status_code |-> r.status_code]]
        /\ LimiterUnchanged

\* the last time the clock is read at
LastInstant == Minute + Minute \div 2

LimiterTick ==
    /\ limiter.utcnow < LastInstant
    /\ limiter' = [limiter EXCEPT !.utcnow = @ + Minute \div 2,
                                  !.last = [NoLimiterCall EXCEPT !.op = "tick"]]
    /\ LimiterUnchanged

NextLimiter ==
    \/ CheckRateLimit
    \/ LimiterTick

SpecLimiter == InitLimiter /\ [][NextLimiter]_vars

----------------------------------------------------------------------------
(* Properties of the rate limiter *)

\* the number of times in the list that lie in from..(to - 1)
CountIn(times, from, to) ==
    Cardinality({k \in DOMAIN times : times[k] >= from /\ times[k] < to})

WindowsRespected(l) ==
    \A i \in Identifiers, s \in 0..l.utcnow :
        CountIn(l.admitted[i], s, s + Minute) <= l.requests_per_minute

(* C29: for each identifier, no window of 60 seconds holds more than       *)
(* requests_per_minute calls that check_rate_limit let through; a call is   *)
(* refused, with status 429, exactly when requests_per_minute calls of its  *)
(* identifier were let through in the 60 seconds up to it; a refused call   *)
(* adds no time to the list; the lists of the other identifiers are left    *)
(* as they were.                                                            *)
C29_SlidingWindow ==
    [][ limiter'.last.op = "check_rate_limit" =>
          LET id == limiter'.last.identifier
              utc == limiter.utcnow
              refused == limiter'.last.status_code = HTTP_429_TOO_MANY_REQUESTS
              recent == CountIn(limiter.admitted[id], utc - Minute + 1, utc + 1)
          IN  /\ refused <=> recent >= limiter.requests_per_minute
              /\ ~refused <=> limiter'.last.status_code = 0
              /\ Len(limiter'.requests[id]) = IF refused THEN recent ELSE recent + 1
              /\ \A k \in DOMAIN limiter'.requests[id] :
                    limiter'.requests[id][k] > utc - Minute
              /\ \A other \in Identifiers \ {id} :
                    /\ (other \in DOMAIN limiter'.requests) = (other \in DOMAIN limiter.requests)
                    /\ RequestsOf(limiter'.requests, other) = RequestsOf(limiter.requests, other)
              /\ WindowsRespected(limiter')
      ]_vars

(* a call was refused after the window had moved on: older calls of its    *)
(* identifier have left the list, the other identifier has calls of its own *)
C29_Witness ==
    /\ limiter.last.op = "check_rate_limit"
    /\ limiter.last.status_code = HTTP_429_TOO_MANY_REQUESTS
    /\ limiter.utcnow >= Minute
    /\ Len(limiter.admitted[limiter.last.identifier])
          > Len(limiter.requests[limiter.last.identifier])
    /\ \E other \in DOMAIN limiter.requests :
          other # limiter.last.identifier /\ Len(limiter.requests[other]) > 0

----------------------------------------------------------------------------
(* ObservableCasablancaClient (observers.py) around a CasablancaClient     *)

\* Variant: attach appends the observer whether or not it is in the list.
attach_always(observers, observer) == Append(observers, observer)

attach(observers, observer) ==
    IF ~InList(observer, observers) THEN Append(observers, observer) ELSE observers

\* list.remove: the first occurrence goes
Remove(observers, observer) ==
    LET i == CHOOSE k \in DOMAIN observers :
                 /\ observers[k] = observer
                 /\ \A j \in 1..(k - 1) : observers[j] # observer
    IN  SubSeq(observers, 1, i - 1) \o SubSeq(observers, i + 1, Len(observers))

detach(observers, observer) ==
    IF InList(observer, observers) THEN Remove(observers, observer) ELSE observers

(* _notify: one on_data_update call per element of the list, in list order *)
_notify(observers, data_type, data) ==
    [i \in DOMAIN observers |->
        [e |-> "on_data_update", to |-> observers[i], data_type |-> data_type,
         data |-> data]]

(* A method of the observable client: the call on the wrapped client, then *)
(* _notify if that call returned.  events lists what happened, in order.    *)
Observable_call(observers, method, data_type, result) ==
    LET called == <<[e |-> "client", to |-> method, data_type |-> "none",
                     data |-> NoValue]>>
    IN  IF result.ok
        THEN [result |-> result,
              events |-> called \o _notify(observers, data_type, result.value)]
        ELSE [result |-> result, events |-> called]

\* the data_type each method notifies with
DataTypeOf ==
    [get_scoreboard |-> "scoreboard", get_schedule |-> "schedule",
     get_todays_scoreboard |-> "scoreboard_today",
     get_todays_schedule |-> "schedule_today",
     get_upcoming_schedules |-> "schedules_upcoming",
     clear_cache |-> "cache_cleared",
     set_cache_duration |-> "cache_duration_changed"]

----------------------------------------------------------------------------
(* Operations on one ObservableCasablancaClient *)

ObserverObjects == {"logging", "metrics", "metrics2"}

InitObservers ==
    /\ NcaaIdle
    /\ AuthIdle
    /\ FilterIdle
    /\ GenderIdle
    /\ ParserIdle
    /\ BuilderIdle
    /\ RoundTripIdle
    /\ LimiterIdle
    /\ obs = NoObservable

ObserverUnchanged == UNCHANGED <<ncaaVars, authVars, filterVars, genderVars, parserVars,
                                builder, rt, limiter>>

Attach ==
    \E observer \in ObserverObjects :
        /\ obs' = [observers |-> attach(obs.observers, observer),
                   last |-> [NoObservableCall EXCEPT !.op = "attach",
                                                     !.observer = observer]]
        /\ ObserverUnchanged

Detach ==
    \E observer \in ObserverObjects :
        /\ obs' = [observers |-> detach(obs.observers, observer),
                   last |-> [NoObservableCall EXCEPT !.op = "detach",
                                                     !.observer = observer]]
        /\ ObserverUnchanged

Observed(method, result) ==
    LET r == Observable_call(obs.observers, method, DataTypeOf[method], result)
    IN  /\ obs' = [obs EXCEPT !.last = [op |-> method, observer |-> "none",
                                        result |-> r.result, events |-> r.events]]
        /\ ObserverUnchanged

ObservableGet(method, kind) ==
    \E p \in PassArgsOf(kind), date \in ClientDates, http \in HttpOutcomes :
        Observed(method, Client_get(kind, p[1], p[2], date, http).result)

ObservableGetTodays(method, kind) ==
    \E p \in PassArgsOf(kind), http \in HttpOutcomes :
        Observed(method, Client_get_todays(kind, p[1], p[2], today, http).result)

ObservableGetScoreboard == ObservableGet("get_scoreboard", "scoreboard")

ObservableGetSchedule == ObservableGet("get_schedule", "schedule")

ObservableGetTodaysScoreboard == ObservableGetTodays("get_todays_scoreboard", "scoreboard")

ObservableGetTodaysSchedule == ObservableGetTodays("get_todays_schedule", "schedule")

ObservableGetUpcomingSchedules ==
    \E p \in PassArgsOf("schedule"), days \in 0..MaxDays :
      \E outs \in [1..days -> BuilderOutcomes] :
        LET dayAt == [k \in 1..days |-> today]
        IN  Observed("get_upcoming_schedules",
                     UpcomingResult(Client_get_upcoming_schedules(p[1], p[2], days,
                                                                  dayAt, outs)))

\* CasablancaClient.clear_cache does nothing and returns
ObservableClearCache == Observed("clear_cache", Ok(NoValue))

ObservableSetCacheDuration ==
    \E seconds \in 0..MaxTTL :
        Observed("set_cache_duration", Ok([kind |-> "seconds", body |-> seconds]))

NextObservers ==
    \/ Attach
    \/ Detach
    \/ ObservableGetScoreboard
    \/ ObservableGetSchedule
    \/ ObservableGetTodaysScoreboard
    \/ ObservableGetTodaysSchedule
    \/ ObservableGetUpcomingSchedules
    \/ ObservableClearCache
    \/ ObservableSetCacheDuration

SpecObservers == InitObservers /\ [][NextObservers]_vars

----------------------------------------------------------------------------
(* Properties of the observable client *)

NotifiedTo(events, observer) ==
    Cardinality({k \in DOMAIN events :
                    events[k].e = "on_data_update" /\ events[k].to = observer})

(* C30: an operation whose wrapped call returned calls on_data_update once *)
(* on each observer attached at that time, in the order they were attached, *)
(* after the call on the wrapped client, with the method's data type and    *)
(* the returned data; an operation whose wrapped call raised notifies none. *)
(* attach of an attached observer leaves the list as it is, attach of       *)
(* another puts it last, detach takes it out, so it is notified no more.    *)
C30_Notifications ==
    [][ /\ obs'.last.op \in DOMAIN DataTypeOf =>
            /\ obs'.observers = obs.observers
            /\ Len(obs'.last.events) >= 1
            /\ obs'.last.events[1].e = "client"
            /\ obs'.last.events[1].to = obs'.last.op
            /\ IF obs'.last.result.ok
               THEN /\ Len(obs'.last.events) = 1 + Len(obs.observers)
                    /\ \A i \in DOMAIN obs.observers :
                          obs'.last.events[i + 1] =
                              [e |-> "on_data_update", to |-> obs.observers[i],
                               data_type |-> DataTypeOf[obs'.last.op],
                               data |-> obs'.last.result.value]
                    /\ \A o \in ObserverObjects :
                          NotifiedTo(obs'.last.events, o) =
                              IF InList(o, obs.observers) THEN 1 ELSE 0
               ELSE Len(obs'.last.events) = 1
        /\ obs'.last.op = "attach" =>
              obs'.observers = IF InList(obs'.last.observer, obs.observers)
                               THEN obs.observers
                               ELSE Append(obs.observers, obs'.last.observer)
        /\ obs'.last.op = "detach" =>
              /\ ~InList(obs'.last.observer, obs'.observers)
              /\ obs'.observers = SelectSeq(obs.observers,
                                            LAMBDA o : o # obs'.last.observer)
      ]_vars

(* two observers, attached in an order that is not that of their names,    *)
(* have been notified of a scoreboard; a third is not attached              *)
C30_Witness ==
    /\ obs.observers = <<"metrics", "logging">>
    /\ obs.last.op = "get_scoreboard"
    /\ obs.last.result.ok
    /\ Len(obs.last.events) = 3
    /\ obs.last.events[2].to = "metrics"
====
